---------------------------- MODULE Spec2Model ----------------------------
(***************************************************************************)
(* Road-hazard location inference (MadSnowi): the analyze-hazard edge      *)
(* function in its three revisions (places search with radius expansion,   *)
(* LLM analysis with inline fallback, LLM analysis with                    *)
(* createSimpleFallback / tryEnhanceWithPlaces) and the client-side        *)
(* AIService.analyzeHazardReport that consumes it.                         *)
(*                                                                         *)
(* Representation:                                                         *)
(*  - a string is a sequence of one-character strings;                     *)
(*  - a similarity score is the rational (maxLength - distance)/maxLength  *)
(*    scaled by SimScale and truncated, so 0.85 is 850000;                 *)
(*  - a latitude is an integer number of 1e-4 degrees; all coordinates of  *)
(*    the model lie on the meridian of the search origin, where the        *)
(*    haversine formula reduces to R * |dLat| * pi / 180;                  *)
(*  - a distance is an integer number of 1e-7 miles (1e-7 kilometres in    *)
(*    the revision that measures in kilometres).                           *)
(***************************************************************************)
EXTENDS Integers, Sequences, FiniteSets, TLC

(***************************************************************************)
(* Bounds of the model                                                     *)
(***************************************************************************)
\* places the provider hands out in one page of results
MaxPerPage == 1
\* places the provider hands out during one search, all pages and radii
MaxPlacesReturned == 2
\* pages of one search that carry a next_page_token
MaxTokens == 2
\* results of one places request of tryEnhanceWithPlaces
MaxResults == 2

(***************************************************************************)
(* Strings                                                                 *)
(***************************************************************************)
UpperChars == <<"A","B","C","D","E","F","G","H","I","J","K","L","M",
                "N","O","P","Q","R","S","T","U","V","W","X","Y","Z">>
LowerChars == <<"a","b","c","d","e","f","g","h","i","j","k","l","m",
                "n","o","p","q","r","s","t","u","v","w","x","y","z">>

LowerChar(c) ==
    IF \E i \in 1..26 : UpperChars[i] = c
    THEN LowerChars[CHOOSE i \in 1..26 : UpperChars[i] = c]
    ELSE c

\* a conversion that leaves capitals as they are
keepCase(s) == s

\* String.prototype.toLowerCase
toLowerCase(s) == [i \in 1..Len(s) |-> LowerChar(s[i])]

\* String.prototype.includes
includes(s, sub) ==
    \E i \in 0..(Len(s) - Len(sub)) :
        \A k \in 1..Len(sub) : s[i + k] = sub[k]

\* type.replace(/_/g, ' ')
replaceUnderscores(s) == [i \in 1..Len(s) |-> IF s[i] = "_" THEN " " ELSE s[i]]

RECURSIVE splitFrom(_, _, _, _)
splitFrom(s, i, cur, acc) ==
    IF i > Len(s) THEN Append(acc, cur)
    ELSE IF s[i] = " "
         THEN \* /\s+/ : a run of blanks is one separator
              IF i > 1 /\ s[i - 1] = " "
              THEN splitFrom(s, i + 1, cur, acc)
              ELSE splitFrom(s, i + 1, <<>>, Append(acc, cur))
         ELSE splitFrom(s, i + 1, Append(cur, s[i]), acc)

\* String.prototype.split(/\s+/)
split(s) == splitFrom(s, 1, <<>>, <<>>)

Max(a, b) == IF a >= b THEN a ELSE b
Min(a, b) == IF a <= b THEN a ELSE b
Abs(x) == IF x < 0 THEN -x ELSE x

(***************************************************************************)
(* Fuzzy matcher                                                           *)
(***************************************************************************)
RECURSIVE levRow(_, _, _, _, _)
\* one row j of the matrix, filled left to right; position i+1 holds matrix[j][i]
\* (the test on Len forces the row built so far before the next cell is added)
levRow(a, bj, prev, cur, i) ==
    IF i > Len(a) \/ Len(cur) # i THEN cur
    ELSE LET indicator == IF a[i] = bj THEN 0 ELSE 1
             cell == Min(Min(cur[i] + 1, prev[i + 1] + 1), prev[i] + indicator)
         IN  levRow(a, bj, prev, Append(cur, cell), i + 1)

RECURSIVE levRows(_, _, _, _)
levRows(a, b, prev, j) ==
    IF j > Len(b) \/ Len(prev) # Len(a) + 1 THEN prev
    ELSE levRows(a, b, levRow(a, b[j], prev, <<j>>, 1), j + 1)

\* a distance that compares the strings position by position and counts the
\* surplus of the longer one
levenshteinByPosition(a, b) ==
    Cardinality({i \in 1..Min(Len(a), Len(b)) : a[i] # b[i]}) + Abs(Len(a) - Len(b))

\* a distance that counts every position as an edit
levenshteinAllEdits(a, b) == Max(Len(a), Len(b))

levenshteinDistance(a, b) ==
    levRows(a, b, [i \in 1..(Len(a) + 1) |-> i - 1], 1)[Len(a) + 1]

SimScale == 1000000

calculateSimilarity(a, b) ==
    LET maxLength == Max(Len(a), Len(b))
    IN  IF maxLength = 0 THEN SimScale
        ELSE ((maxLength - levenshteinDistance(toLowerCase(a), toLowerCase(b)))
                 * SimScale) \div maxLength

(***************************************************************************)
(* Distance calculator                                                     *)
(***************************************************************************)
\* 3959 * pi / 180 = 69.0976 miles per degree, in 1e-7 miles per 1e-4 degree
MilesPerUnit == 69098
\* 6371 * pi / 180 = 111.1949 kilometres per degree, in 1e-7 km per 1e-4 degree
KmPerUnit == 111195

\* part_005: haversine with R = 3959 miles
calculateDistance(lat1, lng1, lat2, lng2) == Abs(lat2 - lat1) * MilesPerUnit

\* part_004: haversine with R = 6371 kilometres
calculateDistanceKm(lat1, lng1, lat2, lng2) == Abs(lat2 - lat1) * KmPerUnit

(***************************************************************************)
(* Inputs: hazard texts, location hints, the places the provider knows     *)
(***************************************************************************)
TextTreeSafeway == <<"t","r","e","e"," ","d","o","w","n"," ","n","e","a","r"," ","s","a","f","e","w","a","y">>
TextPotholeHere == <<"p","o","t","h","o","l","e"," ","h","e","r","e">>
TextConstruction == <<"c","o","n","s","t","r","u","c","t","i","o","n"," ","z","o","n","e"," ","a","h","e","a","d">>
TextIceStreet == <<"i","c","e"," ","o","n"," ","m","a","i","n"," ","s","t","r","e","e","t">>
UserTexts == {TextTreeSafeway, TextPotholeHere, TextConstruction, TextIceStreet}

\* null / undefined, a record so that it compares with every object
None == [null |-> TRUE]

\* the user's last known position, 37.7500 N on the model's meridian
UserLocation == [lat |-> 377500, lng |-> -1219200]
UserLat == UserLocation.lat
UserLng == UserLocation.lng
RouteLocation == [lat |-> UserLat + 500, lng |-> UserLng]

\* LocationContext: each hint is a coordinate or absent
LocationContexts ==
    [lastKnownLocation : {None, UserLocation},
     routeStartLocation : {None, RouteLocation},
     routeDestinationLocation : {None, RouteLocation}]

NameSafeway == <<"S","a","f","e","w","a","y">>
NameSafewayS == <<"S","a","f","e","w","a","y","'","s">>
TypeStore == <<"s","t","o","r","e">>
TypeGasStation == <<"g","a","s","_","s","t","a","t","i","o","n">>

\* PlaceResult rows of the provider: name, types, geometry.location
PlaceData ==
    <<[name |-> NameSafeway,  types |-> <<TypeStore>>,      lat |-> UserLat + 100],
      [name |-> NameSafewayS, types |-> <<TypeStore>>,      lat |-> UserLat - 120],
      [name |-> NameSafeway,  types |-> <<TypeStore>>,      lat |-> UserLat + 600],
      [name |-> NameSafeway,  types |-> <<TypeGasStation>>, lat |-> UserLat - 1300]>>
PlaceIds == 1..Len(PlaceData)

RECURSIVE SeqsUpTo(_, _)
SeqsUpTo(S, n) ==
    IF n = 0 THEN {<<>>}
    ELSE LET shorter == SeqsUpTo(S, n - 1)
         IN  shorter \cup {Append(q, x) : q \in shorter, x \in S}

\* what one page of a provider response may hold
PageChoices == SeqsUpTo(PlaceIds, MaxPerPage)

(***************************************************************************)
(* Radius-expanding place search (part_005, searchPlacesWithExpansion)     *)
(***************************************************************************)
radiusLayers == <<1600, 4800, 8000, 16000>>

\* a table that calls every radius high
confidenceAlwaysHigh(radius) == "high"

confidenceThresholds(radius) ==
    CASE radius = 1600 -> "high"
      [] radius = 4800 -> "medium"
      [] radius = 8000 -> "medium"
      [] radius = 16000 -> "low"

maxPages == 3

\* radius * 0.000621371 miles, in 1e-7 miles (the radii are multiples of 100)
radiusMiles(radius) == (radius \div 100) * 621371

stopWords == {<<"n","e","a","r">>,<<"b","y">>,<<"a","t">>,<<"o","n">>,<<"t","h","e">>,<<"a","n","d">>,<<"o","r">>}

\* query.toLowerCase().split(/\s+/).filter(word => word.length > 2 && !stop word)
businessNames(query) ==
    LET queryWords == split(toLowerCase(query))
    IN  SelectSeq(queryWords, LAMBDA word : Len(word) > 2 /\ word \notin stopWords)

RECURSIVE maxOver(_, _)
\* Math.max, from 0, over the similarity of every business name with target
maxOver(names, target) ==
    IF names = <<>> THEN 0
    ELSE Max(calculateSimilarity(Head(names), target), maxOver(Tail(names), target))

RECURSIVE maxOverTypes(_, _)
\* the same over every place type, underscores replaced by blanks
maxOverTypes(types, names) ==
    IF types = <<>> THEN 0
    ELSE Max(maxOver(names, replaceUnderscores(Head(types))),
             maxOverTypes(Tail(types), names))

\* the score of one place: best name similarity, place types when it is below 0.6
scoreOf(query, place) ==
    LET bizNames == businessNames(query)
        byName == maxOver(bizNames, PlaceData[place].name)
    IN  IF byName < (6 * SimScale) \div 10
        THEN Max(byName, maxOverTypes(PlaceData[place].types, bizNames))
        ELSE byName

\* the scores of the model's texts and places, computed once
scoreTable == [q \in UserTexts, pl \in PlaceIds |-> scoreOf(q, pl)]

maxSimilarity(query, place) == scoreTable[query, place]

placeDistance(userLat, userLng, place) ==
    calculateDistance(userLat, userLng, PlaceData[place].lat, userLng)

\* a filter that trusts the provider's radius and skips nothing
inRadiusTrusting(distance, radius) == TRUE

\* "Skip places outside the current radius": the negation of the continue
inRadius(distance, radius) == ~(distance > radiusMiles(radius))

RECURSIVE firstMatchOf(_, _, _, _, _, _)
\* a loop that keeps the first in-ring candidate above 0.7 and never replaces it
firstMatchOf(results, i, userLat, userLng, query, radius) ==
    IF i = 0 THEN None
    ELSE LET best == firstMatchOf(results, i - 1, userLat, userLng, query, radius)
             p == results[i]
             d == placeDistance(userLat, userLng, p)
             sim == maxSimilarity(query, p)
         IN  IF best = None /\ inRadius(d, radius) /\ sim > (7 * SimScale) \div 10
             THEN [place |-> p, distance |-> d, similarity |-> sim]
             ELSE best

RECURSIVE bestMatchOf(_, _, _, _, _, _)
\* the loop of lines 222-261 over the first i entries of allResults
bestMatchOf(results, i, userLat, userLng, query, radius) ==
    IF i = 0 THEN None
    ELSE LET best == bestMatchOf(results, i - 1, userLat, userLng, query, radius)
             p == results[i]
             d == placeDistance(userLat, userLng, p)
             sim == maxSimilarity(query, p)
         IN  IF ~inRadius(d, radius) THEN best
             ELSE IF sim > (7 * SimScale) \div 10
                     /\ (IF best = None THEN TRUE
                         ELSE \/ sim > best.similarity
                              \/ (sim >= best.similarity /\ d < best.distance))
                  THEN [place |-> p, distance |-> d, similarity |-> sim]
                  ELSE best

confidentSimilarity == (85 * SimScale) \div 100

(***************************************************************************)
(* Hazard text classifier (part_005, classifyHazard)                       *)
(***************************************************************************)
\* the keywords of the classifiers
Kw ==
    [accident |-> <<"a","c","c","i","d","e","n","t">>,
     crash |-> <<"c","r","a","s","h">>,
     collision |-> <<"c","o","l","l","i","s","i","o","n">>,
     ice |-> <<"i","c","e">>,
     frost |-> <<"f","r","o","s","t">>,
     frozen |-> <<"f","r","o","z","e","n">>,
     tree |-> <<"t","r","e","e">>,
     fell |-> <<"f","e","l","l">>,
     down |-> <<"d","o","w","n">>,
     fallen |-> <<"f","a","l","l","e","n">>,
     blocking |-> <<"b","l","o","c","k","i","n","g">>,
     blocked |-> <<"b","l","o","c","k","e","d">>,
     closure |-> <<"c","l","o","s","u","r","e">>,
     flood |-> <<"f","l","o","o","d">>,
     water |-> <<"w","a","t","e","r">>,
     flooding |-> <<"f","l","o","o","d","i","n","g">>,
     construction |-> <<"c","o","n","s","t","r","u","c","t","i","o","n">>,
     work |-> <<"w","o","r","k">>,
     crew |-> <<"c","r","e","w">>,
     debris |-> <<"d","e","b","r","i","s">>,
     trash |-> <<"t","r","a","s","h">>,
     garbage |-> <<"g","a","r","b","a","g","e">>,
     pothole |-> <<"p","o","t","h","o","l","e">>,
     hole |-> <<"h","o","l","e">>,
     sign |-> <<"s","i","g","n">>]

classifyHazard(description) ==
    LET text == toLowerCase(description)
        has(k) == includes(text, k)
    IN  IF has(Kw.accident) \/ has(Kw.crash) \/ has(Kw.collision)
        THEN [hazardType |-> "accident", severity |-> "high", title |-> "Accident Alert"]
        ELSE IF has(Kw.ice) \/ has(Kw.frost) \/ has(Kw.frozen)
        THEN [hazardType |-> "ice", severity |-> "high", title |-> "Ice Hazard"]
        ELSE IF has(Kw.tree) /\ (has(Kw.fell) \/ has(Kw.down) \/ has(Kw.fallen) \/ has(Kw.blocking))
        THEN [hazardType |-> "obstruction", severity |-> "high", title |-> "Fallen Tree"]
        ELSE IF has(Kw.blocked) \/ has(Kw.blocking) \/ has(Kw.closure)
        THEN [hazardType |-> "obstruction", severity |-> "high", title |-> "Road Closure"]
        ELSE IF has(Kw.flood) \/ has(Kw.water) \/ has(Kw.flooding)
        THEN [hazardType |-> "flooding", severity |-> "medium", title |-> "Water Hazard"]
        ELSE IF has(Kw.construction) \/ has(Kw.work) \/ has(Kw.crew)
        THEN [hazardType |-> "construction", severity |-> "medium", title |-> "Construction Zone"]
        ELSE IF has(Kw.debris) \/ has(Kw.trash) \/ has(Kw.garbage)
        THEN [hazardType |-> "debris", severity |-> "medium", title |-> "Road Debris"]
        ELSE IF has(Kw.pothole) \/ has(Kw.hole)
        THEN [hazardType |-> "pothole", severity |-> "low", title |-> "Pothole Alert"]
        ELSE IF has(Kw.sign) /\ has(Kw.down)
        THEN [hazardType |-> "debris", severity |-> "low", title |-> "Sign Down"]
        ELSE [hazardType |-> "unknown", severity |-> "medium", title |-> "Road Hazard"]

(***************************************************************************)
(* The LLM provider and the lookups of the other revisions                 *)
(***************************************************************************)
\* what the LLM may answer for location: any confidence, with or without an
\* address, with or without coordinates
GuessCoordinates == [lat |-> UserLat + 300, lng |-> UserLng]
LLMLocations ==
    [address : {"llm", "absent"}, place : {0}, coordinates : {None, GuessCoordinates},
     confidence : {"high", "medium", "low"}, source : {"gpt_guess"}]

\* a parsed HazardAnalysis of the LLM; the provider decides every field
LLMAnalyses ==
    [title : {"Fallen Tree"}, hazardType : {"obstruction"}, severity : {"high"},
     location : LLMLocations \cup {None}, needsLocationConfirmation : BOOLEAN]

\* the outcomes of the chat-completion call: fetch throws (the provider is
\* unreachable), a status that is not ok (429, 401, any other), a body that
\* JSON.parse rejects, or a body that parses: to an analysis, or to the JSON
\* value null
LLMFailures == {"network", "429", "401", "500", "parse"}
LLMOutcomes ==
    [kind : LLMFailures, analysis : {None}]
        \cup [kind : {"ok"}, analysis : LLMAnalyses \cup {None}]

\* the body of a 2xx response that carries an analysis
analysisResponse(a) ==
    [status |-> 200, kind |-> "analysis",
     title |-> a.title, hazardType |-> a.hazardType, severity |-> a.severity,
     location |-> a.location, needsLocationConfirmation |-> a.needsLocationConfirmation]

\* index.ts lines 347-358, part_004 lines 412-423: { error, details }, status 500
rawErrorResponse == [status |-> 500, kind |-> "error"]

userLocation(ctx, source) ==
    [address |-> "user", place |-> 0,
     coordinates |-> [lat |-> ctx.lastKnownLocation.lat, lng |-> ctx.lastKnownLocation.lng],
     confidence |-> "medium", source |-> source]

placeLocation(p, source) ==
    [address |-> "place", place |-> p,
     coordinates |-> [lat |-> PlaceData[p].lat, lng |-> UserLng],
     confidence |-> "high", source |-> source]

(***************************************************************************)
(* analyze-hazard/index.ts                                                 *)
(***************************************************************************)
\* lines 291-315: the analysis built when the LLM stage failed
indexFallback(ctx) ==
    [title |-> "Road Hazard", hazardType |-> "Road hazard", severity |-> "medium",
     location |-> IF ctx.lastKnownLocation # None
                  THEN userLocation(ctx, "user_location") ELSE None,
     needsLocationConfirmation |-> (ctx.lastKnownLocation = None)]

\* whether enhanceLocationWithPlaces gets as far as its text-search request
enhanceFetches(locationText, ctx, e) ==
    locationText # "absent" /\ ctx.lastKnownLocation # None /\ e.googleMapsApiKey

\* first: data.results[0], or 0 when the request fails or has no results
enhanceLocationWithPlaces(locationText, ctx, e, first) ==
    IF ~enhanceFetches(locationText, ctx, e) THEN None
    ELSE IF first = 0 THEN None
    ELSE placeLocation(first, "places_api")

\* geocoded: the first result's geometry.location, or None
geocodeAddress(e, geocoded) ==
    IF ~e.googleMapsApiKey THEN None ELSE geocoded

\* lines 319-327
indexEnhanced(a, ctx, e, first) ==
    IF a.location # None /\ a.location.confidence \in {"low", "medium"}
    THEN LET enhancedLocation == enhanceLocationWithPlaces(a.location.address, ctx, e, first)
         IN  IF enhancedLocation # None
             THEN [a EXCEPT !.location = enhancedLocation,
                            !.needsLocationConfirmation = FALSE]
             ELSE a
    ELSE a

\* lines 330-339
indexGeocoded(a, e, geocoded) ==
    IF a.location # None /\ a.location.coordinates = None /\ a.location.address # "absent"
    THEN LET geocodeResult == geocodeAddress(e, geocoded)
         IN  IF geocodeResult # None
             THEN [a EXCEPT !.location.coordinates = geocodeResult,
                            !.location.confidence =
                                IF @ = "low" THEN "medium" ELSE @,
                            !.needsLocationConfirmation = FALSE]
             ELSE a
    ELSE a

\* lines 34-359 for an analysis request: llm is None when no call was made
serveIndex(ctx, e, llm, first, geocoded) ==
    IF ~e.openAIApiKey THEN rawErrorResponse          \* line 66, caught at 347
    ELSE IF llm.kind = "ok" /\ llm.analysis = None
    THEN rawErrorResponse                             \* line 319 throws on null
    ELSE LET analysis == IF llm.kind = "ok" THEN llm.analysis ELSE indexFallback(ctx)
         IN  analysisResponse(indexGeocoded(indexEnhanced(analysis, ctx, e, first),
                                            e, geocoded))

\* the lookups the handler makes for these inputs; an outcome is drawn for
\* a request that is made and for no other
indexAsksPlaces(ctx, e, llm) ==
    /\ e.openAIApiKey
    /\ ~(llm.kind = "ok" /\ llm.analysis = None)
    /\ LET analysis == IF llm.kind = "ok" THEN llm.analysis ELSE indexFallback(ctx)
       IN  /\ analysis.location # None
           /\ analysis.location.confidence \in {"low", "medium"}
           /\ enhanceFetches(analysis.location.address, ctx, e)

indexAsksGeocode(ctx, e, llm, first) ==
    /\ e.openAIApiKey
    /\ ~(llm.kind = "ok" /\ llm.analysis = None)
    /\ e.googleMapsApiKey
    /\ LET analysis == indexEnhanced(IF llm.kind = "ok" THEN llm.analysis
                                     ELSE indexFallback(ctx), ctx, e, first)
       IN  /\ analysis.location # None
           /\ analysis.location.coordinates = None
           /\ analysis.location.address # "absent"

(***************************************************************************)
(* part_004: the revision with createSimpleFallback                        *)
(***************************************************************************)
\* lines 438-460
createSimpleFallbackTitle(text) ==
    LET lowerInput == toLowerCase(text)
        has(k) == includes(lowerInput, k)
    IN  IF has(Kw.tree) /\ (has(Kw.down) \/ has(Kw.fell))
        THEN [title |-> "Fallen Tree", severity |-> "high"]
        ELSE IF has(Kw.ice) \/ has(Kw.frost)
        THEN [title |-> "Ice Hazard", severity |-> "high"]
        ELSE IF has(Kw.accident) \/ has(Kw.crash)
        THEN [title |-> "Accident Alert", severity |-> "high"]
        ELSE IF has(Kw.construction)
        THEN [title |-> "Construction Zone", severity |-> "medium"]
        ELSE IF has(Kw.pothole)
        THEN [title |-> "Pothole Alert", severity |-> "low"]
        ELSE IF has(Kw.debris) \/ has(Kw.trash)
        THEN [title |-> "Road Debris", severity |-> "medium"]
        ELSE [title |-> "Road Hazard", severity |-> "medium"]

\* lines 427-489
createSimpleFallback(text, ctx) ==
    LET t == createSimpleFallbackTitle(text)
    IN  [title |-> t.title, hazardType |-> "Road hazard", severity |-> t.severity,
         location |-> IF ctx.lastKnownLocation # None
                      THEN userLocation(ctx, "user_location") ELSE None,
         needsLocationConfirmation |-> (ctx.lastKnownLocation = None)]

\* line 499: one-word alternatives of the pattern; no alternative left out
\* here occurs in a text of UserTexts
businessWords ==
    {<<"w","a","l","g","r","e","e","n">>, <<"w","a","l","g","r","e","e","n","s">>, <<"c","v","s">>, <<"s","a","f","e","w","a","y">>, <<"t","a","r","g","e","t">>, <<"w","a","l","m","a","r","t">>,
     <<"s","t","a","r","b","u","c","k","s">>, <<"m","c","d","o","n","a","l","d">>, <<"m","c","d","o","n","a","l","d","s">>, <<"s","h","e","l","l">>, <<"c","h","e","v","r","o","n">>,
     <<"p","h","a","r","m","a","c","y">>, <<"b","a","n","k">>, <<"a","t","m">>, <<"c","o","s","t","c","o">>, <<"l","o","w","e">>, <<"l","o","w","e","s">>}

RECURSIVE firstWordIn(_, _)
\* the first word of words that is, ignoring case, in the set; <<>> when none
firstWordIn(words, set) ==
    IF words = <<>> THEN <<>>
    ELSE IF toLowerCase(Head(words)) \in set THEN Head(words)
    ELSE firstWordIn(Tail(words), set)

\* userInput.match(/\b(...)\b/gi)[0]
businessMatch(text) == firstWordIn(split(text), businessWords)

\* lines 555-557
nameMatch(p, business) ==
    \/ includes(toLowerCase(PlaceData[p].name), toLowerCase(business))
    \/ \E i \in 1..Len(PlaceData[p].types) :
          includes(PlaceData[p].types[i], toLowerCase(business))

placeDistanceKm(ctx, p) ==
    calculateDistanceKm(ctx.lastKnownLocation.lat, ctx.lastKnownLocation.lng,
                        PlaceData[p].lat, ctx.lastKnownLocation.lng)

RECURSIVE closestBusiness(_, _, _, _)
\* lines 542-572 over the first i results: 0 when no result matches by name
closestBusiness(results, i, ctx, business) ==
    IF i = 0 THEN 0
    ELSE LET closest == closestBusiness(results, i - 1, ctx, business)
             p == results[i]
         IN  IF /\ nameMatch(p, business)
                /\ (closest = 0 \/ placeDistanceKm(ctx, p) < placeDistanceKm(ctx, closest))
             THEN p
             ELSE closest

\* whether tryEnhanceWithPlaces gets as far as its search requests
tryEnhanceFetches(text, ctx, e) ==
    ctx.lastKnownLocation # None /\ e.googleMapsApiKey /\ businessMatch(text) # <<>>

\* lines 491-615; results: data.results of the nearby search or, when that has
\* none, of the text search; <<>> when both fail
tryEnhanceWithPlaces(text, ctx, e, results) ==
    IF ~tryEnhanceFetches(text, ctx, e) THEN None
    ELSE LET closest == closestBusiness(results, Len(results), ctx, businessMatch(text))
         IN  IF closest = 0 THEN None ELSE placeLocation(closest, "places_api")

\* lines 361-393: the analysis after the LLM stage; a body that parses to null
\* throws at line 364 and is handled as a parse error
analysis004(text, ctx, e, llm, results) ==
    IF llm.kind = "ok" /\ llm.analysis # None
    THEN [llm.analysis EXCEPT !.hazardType = llm.analysis.title]
    ELSE LET a == createSimpleFallback(text, ctx)
             enhancedLocation == tryEnhanceWithPlaces(text, ctx, e, results)
         IN  IF enhancedLocation # None
             THEN [a EXCEPT !.location = enhancedLocation,
                            !.needsLocationConfirmation = FALSE]
             ELSE a

\* whether lines 396-405 call tryEnhanceWithPlaces for this analysis
enhancesAgain(a) ==
    a.location # None /\ a.location.confidence # "high" /\ a.location.source # "places_api"

\* lines 34-425 for an analysis request
serve004(text, ctx, e, llm, results, again) ==
    IF ~e.openAIApiKey THEN rawErrorResponse          \* line 81, caught at 412
    ELSE LET a == analysis004(text, ctx, e, llm, results)
             enhancedLocation == IF enhancesAgain(a)
                                 THEN tryEnhanceWithPlaces(text, ctx, e, again)
                                 ELSE None
         IN  analysisResponse(IF enhancedLocation # None
                              THEN [a EXCEPT !.location = enhancedLocation,
                                             !.needsLocationConfirmation = FALSE]
                              ELSE a)

asksFirst004(text, ctx, e, llm) ==
    /\ e.openAIApiKey
    /\ ~(llm.kind = "ok" /\ llm.analysis # None)
    /\ tryEnhanceFetches(text, ctx, e)

asksAgain004(text, ctx, e, llm, results) ==
    /\ e.openAIApiKey
    /\ enhancesAgain(analysis004(text, ctx, e, llm, results))
    /\ tryEnhanceFetches(text, ctx, e)

(***************************************************************************)
(* The client's fallback (aiService.ts, and its older revision part_017)   *)
(***************************************************************************)
clientBusinessWords ==
    {<<"w","a","l","g","r","e","e","n">>, <<"w","a","l","g","r","e","e","n","s">>, <<"c","v","s">>, <<"s","a","f","e","w","a","y">>, <<"t","a","r","g","e","t">>, <<"w","a","l","m","a","r","t">>,
     <<"s","t","a","r","b","u","c","k","s">>, <<"m","c","d","o","n","a","l","d">>, <<"m","c","d","o","n","a","l","d","s">>}
\* the second pattern adds these (and two alternatives that are not one word)
clientBusinessWordsAlone == clientBusinessWords \cup {<<"s","h","e","l","l">>, <<"c","h","e","v","r","o","n">>}
connectorWords == {<<"o","f","f">>, <<"o","n">>, <<"n","e","a","r">>, <<"a","t">>, <<"b","y">>}
streetSuffixes ==
    {<<"r","o","a","d">>, <<"r","d">>, <<"s","t","r","e","e","t">>, <<"s","t">>, <<"a","v","e","n","u","e">>, <<"a","v","e">>, <<"b","o","u","l","e","v","a","r","d">>,
     <<"b","l","v","d">>, <<"h","i","g","h","w","a","y">>, <<"h","w","y">>, <<"d","r","i","v","e">>, <<"d","r">>, <<"l","a","n","e">>, <<"l","n">>, <<"w","a","y">>}
landmarkSuffixes ==
    {<<"p","a","r","k">>, <<"s","q","u","a","r","e">>, <<"p","l","a","z","a">>, <<"c","e","n","t","e","r">>, <<"m","a","l","l">>, <<"s","t","a","t","i","o","n">>,
     <<"s","c","h","o","o","l">>, <<"h","o","s","p","i","t","a","l">>, <<"l","i","b","r","a","r","y">>}
areaWords == {<<"d","o","w","n","t","o","w","n">>, <<"u","p","t","o","w","n">>, <<"m","i","d","t","o","w","n">>}

endsWith(s, suffix) ==
    Len(s) >= Len(suffix) /\ SubSeq(s, Len(s) - Len(suffix) + 1, Len(s)) = suffix

RECURSIVE joinWords(_, _, _)
\* the words i..j of words with one blank between them
joinWords(words, i, j) ==
    IF i > j THEN <<>>
    ELSE IF i = j THEN words[i]
    ELSE words[i] \o <<" ">> \o joinWords(words, i + 1, j)

\* [a-zA-Z\s]+(?:suffix)\b can end with word j when the run starts at word from:
\* the word ends with a suffix and at least one character stands before it
suffixEndsAt(words, j, from, suffixes) ==
    \E s \in suffixes :
        /\ endsWith(toLowerCase(words[j]), s)
        /\ (Len(words[j]) > Len(s) \/ j > from)

\* the last such word at or after from (the run is greedy), 0 when there is none
lastSuffixWord(words, from, suffixes) ==
    LET ends == {j \in from..Len(words) : suffixEndsAt(words, j, from, suffixes)}
    IN  IF ends = {} THEN 0 ELSE CHOOSE j \in ends : \A k \in ends : k <= j

\* the index of the first word that is in the set, 0 when there is none
firstIndexIn(words, set) ==
    LET hits == {k \in 1..Len(words) : toLowerCase(words[k]) \in set}
    IN  IF hits = {} THEN 0 ELSE CHOOSE k \in hits : \A h \in hits : k <= h

\* lines 62-95: the first of the five patterns that matches gives the text;
\* <<>> stands for null
extractedLocation(text) ==
    LET words == split(text)
        b == firstIndexIn(words, clientBusinessWords)
        afterConnector == IF b > 0 /\ b < Len(words)
                             /\ toLowerCase(words[b + 1]) \in connectorWords
                          THEN b + 2 ELSE b + 1
        streetEnd == IF b = 0 THEN 0
                     ELSE IF lastSuffixWord(words, afterConnector, streetSuffixes) # 0
                     THEN lastSuffixWord(words, afterConnector, streetSuffixes)
                     ELSE lastSuffixWord(words, b + 1, streetSuffixes)
        streetStart == IF b # 0 /\ lastSuffixWord(words, afterConnector, streetSuffixes) # 0
                       THEN afterConnector ELSE b + 1
        alone == firstIndexIn(words, clientBusinessWordsAlone)
        street == lastSuffixWord(words, 1, streetSuffixes)
        landmark == lastSuffixWord(words, 1, landmarkSuffixes)
        area == firstIndexIn(words, areaWords)
    IN  IF b # 0 /\ streetEnd # 0
        THEN words[b] \o <<" ">> \o joinWords(words, streetStart, streetEnd)
        ELSE IF alone # 0 THEN words[alone]
        ELSE IF street # 0 THEN joinWords(words, 1, street)
        ELSE IF landmark # 0 THEN joinWords(words, 1, landmark)
        ELSE IF area # 0 THEN words[area]
        ELSE <<>>

hasLocationData(ctx) ==
    \/ ctx.lastKnownLocation # None
    \/ ctx.routeStartLocation # None
    \/ ctx.routeDestinationLocation # None

\* lastKnownLocation || routeStartLocation || routeDestinationLocation
userCoords(ctx) ==
    IF ctx.lastKnownLocation # None THEN ctx.lastKnownLocation
    ELSE IF ctx.routeStartLocation # None THEN ctx.routeStartLocation
    ELSE ctx.routeDestinationLocation

\* lines 346-398: the keys of locationDatabase in their order, with coordinates
locationDatabase ==
    <<[key |-> <<"d","o","u","g","h","e","r","t","y"," ","v","a","l","l","e","y"," ","h","i","g","h"," ","s","c","h","o","o","l">>, lat |-> 377184, lng |-> -1218282],
      [key |-> <<"s","a","n"," ","r","a","m","o","n"," ","v","a","l","l","e","y"," ","h","i","g","h"," ","s","c","h","o","o","l">>, lat |-> 377622, lng |-> -1219444],
      [key |-> <<"c","a","l","i","f","o","r","n","i","a"," ","h","i","g","h"," ","s","c","h","o","o","l">>, lat |-> 377858, lng |-> -1219247],
      [key |-> <<"b","o","l","l","i","n","g","e","r"," ","c","a","n","y","o","n"," ","s","a","f","e","w","a","y">>, lat |-> 377564, lng |-> -1219185],
      [key |-> <<"s","a","f","e","w","a","y">>, lat |-> 377564, lng |-> -1219185],
      [key |-> <<"b","o","l","l","i","n","g","e","r"," ","c","a","n","y","o","n">>, lat |-> 377564, lng |-> -1219185],
      [key |-> <<"b","e","l","l","i","n","g","h","a","m"," ","s","q","u","a","r","e"," ","p","a","r","k">>, lat |-> 423868, lng |-> -710995],
      [key |-> <<"c","e","n","t","r","a","l"," ","p","a","r","k">>, lat |-> 377858, lng |-> -1219747],
      [key |-> <<"d","o","w","n","t","o","w","n"," ","d","a","n","v","i","l","l","e">>, lat |-> 378217, lng |-> -1219999],
      [key |-> <<"s","a","n"," ","r","a","m","o","n">>, lat |-> 377799, lng |-> -1219780],
      [key |-> <<"d","a","n","v","i","l","l","e">>, lat |-> 378217, lng |-> -1219999]>>

\* lines 339-419
directGeocode(location, ctx) ==
    LET locationLower == toLowerCase(location)
        hits == {i \in 1..Len(locationDatabase) :
                    includes(locationLower, locationDatabase[i].key)}
    IN  IF hits # {}
        THEN LET i == CHOOSE h \in hits : \A k \in hits : h <= k
             IN  [lat |-> locationDatabase[i].lat, lng |-> locationDatabase[i].lng]
        ELSE IF ctx.lastKnownLocation # None /\ includes(locationLower, <<"n","e","a","r">>)
        THEN [lat |-> ctx.lastKnownLocation.lat, lng |-> ctx.lastKnownLocation.lng]
        ELSE None

\* lines 306-337; geocoded: the coordinates the geocodeOnly request returned, or None
geocodeLocationWithContext(location, ctx, geocoded) ==
    IF geocoded = None THEN directGeocode(location, ctx) ELSE geocoded

\* lines 157-159, the coordinates in 1e-4 degrees
isUserLocationFallback(coords, user) ==
    Abs(coords.lat - user.lat) < 10 /\ Abs(coords.lng - user.lng) < 10

\* lines 275-297: the title of processHazardTextLocal
processHazardTextLocalTitle(text) ==
    LET lowerInput == toLowerCase(text)
        has(k) == includes(lowerInput, k)
    IN  IF has(Kw.tree) /\ (has(Kw.down) \/ has(Kw.fallen)) THEN "Fallen Tree"
        ELSE IF has(Kw.ice) \/ has(Kw.frost) THEN "Ice Hazard"
        ELSE IF has(Kw.pothole) \/ has(Kw.hole) THEN "Pothole Alert"
        ELSE IF has(Kw.debris) \/ has(Kw.trash) \/ has(<<"o","b","j","e","c","t">>) THEN "Road Debris"
        ELSE IF has(Kw.water) \/ has(Kw.flood) \/ has(<<"p","u","d","d","l","e">>) THEN "Water Hazard"
        ELSE IF has(Kw.construction) \/ has(Kw.work) THEN "Construction Zone"
        ELSE IF has(Kw.accident) \/ has(Kw.crash) THEN "Accident Alert"
        ELSE IF has(<<"a","n","i","m","a","l">>) \/ has(<<"d","e","e","r">>) \/ has(<<"d","o","g">>) THEN "Animal Hazard"
        ELSE IF has(<<"o","i","l">>) \/ has(<<"s","p","i","l","l">>) THEN "Spill Alert"
        ELSE "Road Hazard"

\* lines 98-229: the location of the fallback and whether it needs confirmation;
\* placeFound: data.place of the placesSearchOnly request, 0 when it gave none
fallbackLocationOf(text, ctx, placeFound, geocoded) ==
    LET extracted == extractedLocation(text)
    IN  IF extracted # <<>> /\ hasLocationData(ctx)
        THEN IF placeFound # 0
             THEN [location |-> placeLocation(placeFound, "google_places_fallback"),
                   needsConfirmation |-> FALSE]
             ELSE LET geocodedCoords == geocodeLocationWithContext(extracted, ctx, geocoded)
                  IN  IF geocodedCoords # None
                      THEN [location |->
                                [address |-> "geocoded", place |-> 0,
                                 coordinates |-> geocodedCoords,
                                 confidence |->
                                     IF isUserLocationFallback(geocodedCoords, userCoords(ctx))
                                     THEN "medium" ELSE "high",
                                 source |->
                                     IF isUserLocationFallback(geocodedCoords, userCoords(ctx))
                                     THEN "fallback_estimated_near_user"
                                     ELSE "fallback_geocoded"],
                            needsConfirmation |-> FALSE]
                      ELSE [location |->
                                [address |-> "estimate", place |-> 0,
                                 coordinates |-> [lat |-> userCoords(ctx).lat,
                                                  lng |-> userCoords(ctx).lng],
                                 confidence |-> "low", source |-> "user_location_fallback"],
                            needsConfirmation |-> TRUE]
        ELSE IF ctx.lastKnownLocation # None
        THEN [location |-> userLocation(ctx, "fallback_user_location"),
              needsConfirmation |-> FALSE]
        ELSE [location |-> None, needsConfirmation |-> TRUE]

\* aiService.ts lines 54-243: what analyzeHazardReport returns when the
\* invocation of the edge function failed
analyzeHazardReportFallback(text, ctx, placeFound, geocoded) ==
    LET f == fallbackLocationOf(text, ctx, placeFound, geocoded)
    IN  [title |-> processHazardTextLocalTitle(text), hazardType |-> "Road hazard",
         severity |-> "medium", location |-> f.location,
         needsLocationConfirmation |-> f.needsConfirmation]

\* part_017 line 57
specificLocationWords ==
    {<<"p","a","r","k">>, <<"s","t","r","e","e","t">>, <<"r","o","a","d">>, <<"a","v","e","n","u","e">>, <<"h","i","g","h","w","a","y">>, <<"m","a","l","l">>,
     <<"d","o","w","n","t","o","w","n">>, <<"s","q","u","a","r","e">>, <<"p","l","a","z","a">>, <<"c","e","n","t","e","r">>}
hasSpecificLocation(text) == firstIndexIn(split(text), specificLocationWords) # 0

\* part_017 lines 51-110: the older fallback; it returns no title
analyzeHazardReportFallback017(text, ctx) ==
    [title |-> "absent", hazardType |-> "Road hazard reported", severity |-> "medium",
     location |->
        IF hasSpecificLocation(text) /\ hasLocationData(ctx)
        THEN [address |-> "estimate", place |-> 0,
              coordinates |-> [lat |-> userCoords(ctx).lat, lng |-> userCoords(ctx).lng],
              confidence |-> "low", source |-> "fallback_estimated_near_user"]
        ELSE IF ctx.lastKnownLocation # None
        THEN userLocation(ctx, "fallback_user_location")
        ELSE None,
     needsLocationConfirmation |->
        ~(hasSpecificLocation(text) /\ hasLocationData(ctx)) /\ ctx.lastKnownLocation = None]

(***************************************************************************)
(* State                                                                   *)
(***************************************************************************)
VARIABLES
    userInput,        \* the request's userInput
    locationContext,  \* the request's locationContext
    env,              \* Deno.env: which API keys are configured
    pc,               \* where the submission stands
    radiusIdx,        \* searchPlacesWithExpansion: index of radius in radiusLayers
    pageCount,        \* pages fetched for this radius
    pageToken,        \* whether the last page carried a next_page_token
    allResults,       \* places collected for this radius
    storeIdx,         \* next entry of allResults to store in places_search_logs
    logs,             \* the places_search_logs table
    requests,         \* radius of every text-search request issued, in order
    placesGiven,      \* places the provider has handed out in this search
    tokensGiven,      \* pages of this search that carried a next_page_token
    searchResult,     \* what searchPlacesWithExpansion returned
    response,         \* the HTTP response of the edge function
    handler,          \* which revision of the handler took the request
    llm,              \* the outcome of the chat-completion call, None without a call
    lookups,          \* the outcomes of the other revisions' places and geocoding requests
    clientAnalysis,   \* what the client's analyzeHazardReport returned from its fallback
    submission,       \* 0: a single submission; 1, 2: the first and the second of a resubmitted one
    stub,             \* the provider's replies to the first submission, in order
    firstResponse,    \* the response to the first submission, once it is resubmitted
    firstLogs,        \* places_search_logs as the first submission left it
    arg,              \* the argument a function is applied to on its own
    out,              \* its result
    now,              \* Date.now() of the browser
    localStorage,     \* the browser's storage of LocationService
    component,        \* AIHazardInput: the state of the component
    awaiting,         \* AIHazardInput: the handlers that wait at an await
    journal,          \* AIHazardInput: its calls of analyzeHazardReport and onHazardSubmit, and the denials
    hazard_reports,   \* the hazard_reports table
    cleanup           \* cleanup-old-hazards: the run and what it did

vars == <<userInput, locationContext, env, pc, radiusIdx, pageCount, pageToken,
          allResults, storeIdx, logs, requests, placesGiven, tokensGiven, searchResult,
          response, handler, llm, lookups, clientAnalysis,
          submission, stub, firstResponse, firstLogs, arg, out, now, localStorage,
          component, awaiting, journal, hazard_reports, cleanup>>

searchVars == <<radiusIdx, pageCount, pageToken, allResults, storeIdx, logs,
                requests, placesGiven, tokensGiven, searchResult>>
requestVars == <<userInput, locationContext, env, handler, llm, lookups, clientAnalysis>>
resubmitVars == <<submission, firstResponse, firstLogs>>
componentVars == <<component, awaiting, journal>>
cleanupVars == <<hazard_reports, cleanup>>
probeVars == <<arg, out, now, localStorage, componentVars, cleanupVars>>
\* what the call of a function on its own leaves alone
serverVars == <<requestVars, resubmitVars, searchVars, pc, response, stub>>
handlerVars == <<serverVars, componentVars, cleanupVars>>
\* what a step inside searchPlacesWithExpansion leaves alone
fixedVars == <<requestVars, resubmitVars, probeVars>>

Envs == [googleMapsApiKey : BOOLEAN, openAIApiKey : BOOLEAN]

\* no request has arrived: the table is empty, nothing is in flight
Idle ==
    /\ userInput = <<>>
    /\ locationContext = None
    /\ env = None
    /\ pc = "idle"
    /\ radiusIdx = 1
    /\ pageCount = 0
    /\ pageToken = FALSE
    /\ allResults = <<>>
    /\ storeIdx = 1
    /\ logs = <<>>
    /\ requests = <<>>
    /\ placesGiven = 0
    /\ tokensGiven = 0
    /\ searchResult = None
    /\ response = None
    /\ handler = "none"
    /\ llm = None
    /\ lookups = [places |-> <<>>, again |-> <<>>, geocoded |-> None]
    /\ clientAnalysis = None
    /\ submission = 0
    /\ stub = <<>>
    /\ firstResponse = None
    /\ firstLogs = <<>>
    /\ now = 1
    /\ localStorage = [user_last_location |-> None, route_start_location |-> None,
                       route_destination_location |-> None]
    /\ component = [input |-> <<>>, isProcessing |-> FALSE, needsLocation |-> FALSE,
                    pendingHazard |-> None, showLocationPrompt |-> FALSE]
    /\ awaiting = {}
    /\ journal = <<>>
    /\ hazard_reports = {}
    /\ cleanup = [phase |-> "idle", startedAt |-> now, cutoff |-> now, deleted |-> {},
                  status |-> 200]

Init ==
    /\ Idle
    /\ arg = None
    /\ out = None

radius == radiusLayers[radiusIdx]
userLat == locationContext.lastKnownLocation.lat
userLng == locationContext.lastKnownLocation.lng

(***************************************************************************)
(* The HTTP responses of part_005's serve                                  *)
(***************************************************************************)
\* lines 520-543: the catch of the whole handler
errorResponse ==
    [status |-> 500, kind |-> "analysis",
     title |-> "Road Hazard", hazardType |-> "unknown", severity |-> "medium",
     location |-> [address |-> "unavailable", place |-> 0,
                   coordinates |-> [lat |-> 0, lng |-> 0],
                   confidence |-> "low", source |-> "error"],
     needsLocationConfirmation |-> TRUE]

\* lines 412-437: no lastKnownLocation in the request
noUserLocationResponse(text) ==
    LET c == classifyHazard(text)
    IN  [status |-> 200, kind |-> "analysis",
         title |-> c.title, hazardType |-> c.hazardType, severity |-> c.severity,
         location |-> [address |-> "needed", place |-> 0,
                       coordinates |-> [lat |-> 0, lng |-> 0],
                       confidence |-> "low", source |-> "user_input_only"],
         needsLocationConfirmation |-> TRUE]

\* lines 456-474: a confident match
matchResponse(text, result) ==
    LET c == classifyHazard(text)
    IN  [status |-> 200, kind |-> "analysis",
         title |-> c.title, hazardType |-> c.hazardType, severity |-> c.severity,
         location |-> [address |-> "place", place |-> result.place,
                       coordinates |-> [lat |-> PlaceData[result.place].lat, lng |-> UserLng],
                       confidence |-> result.confidence, source |-> "places_api"],
         needsLocationConfirmation |-> FALSE]

\* the same fallback tagged with the lowest confidence
userLocationResponseLow(text, ctx) ==
    LET c == classifyHazard(text)
    IN  [status |-> 200, kind |-> "analysis",
         title |-> c.title, hazardType |-> c.hazardType, severity |-> c.severity,
         location |-> [address |-> "user", place |-> 0,
                       coordinates |-> [lat |-> ctx.lastKnownLocation.lat,
                                        lng |-> ctx.lastKnownLocation.lng],
                       confidence |-> "low", source |-> "user_location"],
         needsLocationConfirmation |-> FALSE]

\* lines 476-511: the user's location as fallback (the reverse geocoding of
\* lines 483-495 only changes the address text)
userLocationResponse(text, ctx) ==
    LET c == classifyHazard(text)
    IN  [status |-> 200, kind |-> "analysis",
         title |-> c.title, hazardType |-> c.hazardType, severity |-> c.severity,
         location |-> [address |-> "user", place |-> 0,
                       coordinates |-> [lat |-> ctx.lastKnownLocation.lat,
                                        lng |-> ctx.lastKnownLocation.lng],
                       confidence |-> "medium", source |-> "user_location"],
         needsLocationConfirmation |-> FALSE]

(***************************************************************************)
(* part_005: serve and searchPlacesWithExpansion, one action per await     *)
(***************************************************************************)
\* part_005 reads lastKnownLocation alone of the context and GOOGLE_MAPS_API_KEY
\* alone of the environment: its requests are drawn with the rest left out
Contexts005 == {c \in LocationContexts :
                  c.routeStartLocation = None /\ c.routeDestinationLocation = None}
Envs005 == {e \in Envs : e.openAIApiKey}

\* lines 358-452: a request arrives; up to the call of searchPlacesWithExpansion
begin005(text, ctx, e) ==
    /\ userInput' = text
    /\ locationContext' = ctx
    /\ env' = e
    /\ handler' = "part_005"
    /\ IF ~e.googleMapsApiKey
       THEN \* line 377 throws, caught at line 520
            /\ response' = errorResponse
            /\ pc' = "done"
       ELSE IF ctx.lastKnownLocation = None
       THEN /\ response' = noUserLocationResponse(text)
            /\ pc' = "done"
       ELSE /\ pc' = "fetch"
            /\ response' = None
    /\ UNCHANGED <<llm, lookups, clientAnalysis>>

Serve005Begin ==
    /\ pc = "idle"
    /\ \E text \in UserTexts, ctx \in Contexts005, e \in Envs005 : begin005(text, ctx, e)
    /\ UNCHANGED <<searchVars, stub, resubmitVars, probeVars>>

\* a reply of the places provider to one text-search request
Reply(kind, results, token) == [kind |-> kind, results |-> results, token |-> token]

\* the provider as a deterministic stub: the replies to a first submission are
\* kept, and a second submission gets the same reply to the same request
providerAnswers(reply) ==
    LET k == Len(requests) + 1
    IN  /\ (submission = 2 /\ k <= Len(stub)) => reply = stub[k]
        /\ stub' = IF submission = 1 THEN Append(stub, reply) ELSE stub

\* the end of one iteration of the for loop over radiusLayers without a return
nextRadius ==
    /\ pageCount' = 0
    /\ pageToken' = FALSE
    /\ allResults' = <<>>
    /\ storeIdx' = 1
    /\ IF radiusIdx < Len(radiusLayers)
       THEN /\ radiusIdx' = radiusIdx + 1
            /\ pc' = "fetch"
            /\ UNCHANGED searchResult
       ELSE \* line 293
            /\ searchResult' = None
            /\ pc' = "searched"
            /\ UNCHANGED radiusIdx

\* the do-while of lines 116-152 is left: on to the loops over allResults
leaveFetchLoop == pc' = "store" /\ storeIdx' = 1

\* line 128: fetch or response.json() throws; caught at line 287
FetchThrows ==
    /\ pc = "fetch"
    /\ providerAnswers(Reply("throws", <<>>, FALSE))
    /\ requests' = Append(requests, radius)
    /\ nextRadius
    /\ UNCHANGED <<fixedVars, logs, placesGiven, tokensGiven, response>>

\* lines 136-142: a status other than OK and ZERO_RESULTS breaks the do-while
FetchErrorStatus ==
    /\ pc = "fetch"
    /\ providerAnswers(Reply("status", <<>>, FALSE))
    /\ requests' = Append(requests, radius)
    /\ leaveFetchLoop
    /\ UNCHANGED <<fixedVars, radiusIdx, pageCount, pageToken, allResults, logs,
                   placesGiven, tokensGiven, searchResult, response>>

\* a do-while that goes on for as long as the provider hands out tokens
fetchesAgainWhileToken(token, count) == token

\* line 152: while (pageToken && pageCount < maxPages)
fetchesAgain(token, count) == token /\ count < maxPages

\* lines 128-152: one page of results arrives, with or without a next_page_token
pageArrives(results, token) ==
    /\ providerAnswers(Reply("page", results, token))
    /\ tokensGiven' = IF token THEN tokensGiven + 1 ELSE tokensGiven
    /\ requests' = Append(requests, radius)
    /\ allResults' = allResults \o results
    /\ placesGiven' = placesGiven + Len(results)
    /\ pageToken' = token
    /\ pageCount' = pageCount + 1
    /\ IF fetchesAgain(token, pageCount + 1)
       THEN UNCHANGED <<pc, storeIdx>>
       ELSE leaveFetchLoop

\* lines 144-152: a page of results, with or without a next_page_token
FetchPage ==
    /\ pc = "fetch"
    /\ \E results \in PageChoices, token \in BOOLEAN :
          /\ placesGiven + Len(results) <= MaxPlacesReturned
          /\ token => tokensGiven < MaxTokens
          /\ pageArrives(results, token)
    /\ UNCHANGED <<fixedVars, radiusIdx, logs, searchResult, response>>

\* lines 195-209: the row inserted for one place
logRow(query, r, place, distance, similarity) ==
    [search_query |-> query, radius_meters |-> r, place |-> place,
     distance_miles |-> distance, similarity_score |-> similarity,
     confidence_level |-> confidenceThresholds(r), was_selected |-> FALSE]

\* a storing loop whose insert is not caught: when it throws, the catch of
\* line 287 ends the radius
StoreResultAborting ==
    /\ pc = "store"
    /\ storeIdx <= Len(allResults)
    /\ LET p == allResults[storeIdx]
           d == placeDistance(userLat, userLng, p)
       IN  \E db \in {"ok", "throws"} :
              IF db = "ok" \/ ~inRadius(d, radius)
              THEN /\ logs' = IF inRadius(d, radius)
                               THEN Append(logs, logRow(userInput, radius, p, d,
                                                        maxSimilarity(userInput, p)))
                               ELSE logs
                   /\ storeIdx' = storeIdx + 1
                   /\ UNCHANGED <<pc, radiusIdx, pageCount, pageToken, allResults,
                                  searchResult>>
              ELSE /\ nextRadius
                   /\ UNCHANGED logs
    /\ UNCHANGED <<fixedVars, stub, requests, placesGiven, tokensGiven, response>>

\* lines 159-217, one place of allResults: skipped outside the radius, else
\* scored and inserted; a failed insert is logged and the loop goes on
StoreResult ==
    /\ pc = "store"
    /\ storeIdx <= Len(allResults)
    /\ LET p == allResults[storeIdx]
           d == placeDistance(userLat, userLng, p)
       IN  IF ~inRadius(d, radius)
           THEN UNCHANGED logs
           ELSE \E db \in {"ok", "error", "throws"} :
                  logs' = IF db = "ok"
                          THEN Append(logs, logRow(userInput, radius, p, d,
                                                   maxSimilarity(userInput, p)))
                          ELSE logs
    /\ storeIdx' = storeIdx + 1
    /\ UNCHANGED <<fixedVars, stub, pc, radiusIdx, pageCount, pageToken, allResults,
                   requests, placesGiven, tokensGiven, searchResult, response>>

\* a storing loop that is left before its last result
StoreDoneEarly ==
    /\ pc = "store"
    /\ pc' = "select"
    /\ UNCHANGED <<fixedVars, stub, searchVars, response>>

\* line 217: the storing loop is over
StoreDone ==
    /\ pc = "store"
    /\ storeIdx > Len(allResults)
    /\ pc' = "select"
    /\ UNCHANGED <<fixedVars, stub, searchVars, response>>

\* a selection that never takes a best match for confident
isConfidentNever(best) == FALSE

\* a selection that returns the best match of a radius whatever its similarity
isConfidentAnyBest(best) == best # None

\* line 264
isConfident(best) == best # None /\ best.similarity >= confidentSimilarity

\* an update that empties the table instead of marking rows
markSelectedErasing(table, placeName, query, r) == <<>>

\* lines 269-274: update ... set was_selected = true where place_name, search_query
\* and radius_meters match
markSelected(table, placeName, query, r) ==
    [i \in 1..Len(table) |->
        IF /\ PlaceData[table[i].place].name = placeName
           /\ table[i].search_query = query
           /\ table[i].radius_meters = r
        THEN [table[i] EXCEPT !.was_selected = TRUE]
        ELSE table[i]]

\* lines 219-285: the best match of this radius; returned when confident
SelectBest ==
    /\ pc = "select"
    /\ LET best == bestMatchOf(allResults, Len(allResults), userLat, userLng,
                               userInput, radius)
       IN  IF isConfident(best)
           THEN /\ \E db \in {"ok", "error", "throws"} :
                      logs' = IF db = "ok"
                              THEN markSelected(logs, PlaceData[best.place].name,
                                                userInput, radius)
                              ELSE logs
                /\ searchResult' = [place |-> best.place, distance |-> best.distance,
                                    similarity |-> best.similarity,
                                    confidence |-> confidenceThresholds(radius)]
                /\ pc' = "searched"
                /\ pageCount' = 0
                /\ pageToken' = FALSE
                /\ allResults' = <<>>
                /\ storeIdx' = 1
                /\ UNCHANGED radiusIdx
           ELSE /\ nextRadius
                /\ UNCHANGED logs
    /\ UNCHANGED <<fixedVars, stub, requests, placesGiven, tokensGiven, response>>

\* lines 454-518: the analysis built from the search result
Serve005Finish ==
    /\ pc = "searched"
    /\ response' = IF searchResult # None /\ searchResult.similarity >= confidentSimilarity
                   THEN matchResponse(userInput, searchResult)
                   ELSE userLocationResponse(userInput, locationContext)
    /\ pc' = "done"
    /\ UNCHANGED <<fixedVars, stub, searchVars>>

(***************************************************************************)
(* The other handlers, one action per call                                 *)
(***************************************************************************)
\* what a places request may return to tryEnhanceWithPlaces
ResultLists == SeqsUpTo(PlaceIds, MaxResults)
GeocodedCoordinates == [lat |-> UserLat + 40, lng |-> UserLng]

\* index.ts: an analysis request from arrival to response
ServeIndex ==
    /\ pc = "idle"
    /\ \E text \in UserTexts, ctx \in LocationContexts, e \in Envs :
       \E l \in IF e.openAIApiKey THEN LLMOutcomes ELSE {None} :
       \E first \in IF indexAsksPlaces(ctx, e, l) THEN {0} \cup PlaceIds ELSE {0} :
       \E geocoded \in IF indexAsksGeocode(ctx, e, l, first)
                       THEN {None, GeocodedCoordinates} ELSE {None} :
          /\ userInput' = text
          /\ locationContext' = ctx
          /\ env' = e
          /\ handler' = "index"
          /\ llm' = l
          /\ lookups' = [places |-> IF first = 0 THEN <<>> ELSE <<first>>,
                         again |-> <<>>, geocoded |-> geocoded]
          /\ response' = serveIndex(ctx, e, l, first, geocoded)
    /\ pc' = "done"
    /\ UNCHANGED <<searchVars, clientAnalysis, stub, resubmitVars, probeVars>>

\* part_004: an analysis request from arrival to response
Serve004 ==
    /\ pc = "idle"
    /\ \E text \in UserTexts, ctx \in LocationContexts, e \in Envs :
       \E l \in IF e.openAIApiKey THEN LLMOutcomes ELSE {None} :
       \E results \in IF asksFirst004(text, ctx, e, l) THEN ResultLists ELSE {<<>>} :
       \E again \in IF asksAgain004(text, ctx, e, l, results) THEN ResultLists ELSE {<<>>} :
          /\ userInput' = text
          /\ locationContext' = ctx
          /\ env' = e
          /\ handler' = "part_004"
          /\ llm' = l
          /\ lookups' = [places |-> results, again |-> again, geocoded |-> None]
          /\ response' = serve004(text, ctx, e, l, results, again)
    /\ pc' = "done"
    /\ UNCHANGED <<searchVars, clientAnalysis, stub, resubmitVars, probeVars>>

\* the requests of the client's fallback that can give a result: the places
\* request is answered with no place when lastKnownLocation is absent
\* (searchPlaceWithContext reads userLocation.lat inside its try)
clientAsksPlaces(text, ctx) ==
    extractedLocation(text) # <<>> /\ ctx.lastKnownLocation # None

clientAsksGeocode(text, ctx, placeFound) ==
    extractedLocation(text) # <<>> /\ hasLocationData(ctx) /\ placeFound = 0

\* aiService.ts: the invocation of the edge function failed (line 44)
ClientFallback ==
    /\ pc = "idle"
    /\ \E text \in UserTexts, ctx \in LocationContexts :
       \E placeFound \in IF clientAsksPlaces(text, ctx) THEN {0} \cup PlaceIds ELSE {0} :
       \E geocoded \in IF clientAsksGeocode(text, ctx, placeFound)
                       THEN {None, GeocodedCoordinates} ELSE {None} :
          /\ userInput' = text
          /\ locationContext' = ctx
          /\ handler' = "aiService"
          /\ lookups' = [places |-> IF placeFound = 0 THEN <<>> ELSE <<placeFound>>,
                         again |-> <<>>, geocoded |-> geocoded]
          /\ clientAnalysis' = analyzeHazardReportFallback(text, ctx, placeFound, geocoded)
    /\ pc' = "returned"
    /\ UNCHANGED <<env, llm, searchVars, response, stub, resubmitVars, probeVars>>

\* part_017: the same failure in the older client
ClientFallback017 ==
    /\ pc = "idle"
    /\ \E text \in UserTexts, ctx \in LocationContexts :
          /\ userInput' = text
          /\ locationContext' = ctx
          /\ handler' = "part_017"
          /\ clientAnalysis' = analyzeHazardReportFallback017(text, ctx)
    /\ pc' = "returned"
    /\ UNCHANGED <<env, llm, lookups, searchVars, response, stub, resubmitVars, probeVars>>

Next ==
    \/ Serve005Begin
    \/ FetchThrows
    \/ FetchErrorStatus
    \/ FetchPage
    \/ StoreResult
    \/ StoreDone
    \/ SelectBest
    \/ Serve005Finish
    \/ ServeIndex
    \/ Serve004
    \/ ClientFallback
    \/ ClientFallback017

Spec == Init /\ [][Next]_vars

(***************************************************************************)
(* A submission made twice                                                 *)
(***************************************************************************)
\* the report that is submitted twice: it names a business, so the places
\* search runs
ResubmittedTexts == {TextTreeSafeway}

\* part_005: the first of two submissions of one request; the provider's
\* replies to it are kept
SubmitFirst ==
    /\ pc = "idle"
    /\ \E text \in ResubmittedTexts, ctx \in Contexts005, e \in Envs005 : begin005(text, ctx, e)
    /\ submission' = 1
    /\ UNCHANGED <<searchVars, stub, firstResponse, firstLogs, probeVars>>

\* the identical {userInput, locationContext} arrives again: serve starts anew
\* with fresh locals; of the first submission only places_search_logs is left
Resubmit ==
    /\ pc = "done"
    /\ submission = 1
    /\ submission' = 2
    /\ firstResponse' = response
    /\ firstLogs' = logs
    /\ begin005(userInput, locationContext, env)
    /\ radiusIdx' = 1
    /\ pageCount' = 0
    /\ pageToken' = FALSE
    /\ allResults' = <<>>
    /\ storeIdx' = 1
    /\ requests' = <<>>
    /\ placesGiven' = 0
    /\ tokensGiven' = 0
    /\ searchResult' = None
    /\ UNCHANGED <<logs, stub, probeVars>>

\* lines 128-152: a provider that answers each radius in one page
FetchSinglePage == FetchPage /\ ~pageToken'

NextResubmit ==
    \/ SubmitFirst
    \/ Resubmit
    \/ FetchThrows
    \/ FetchErrorStatus
    \/ FetchSinglePage
    \/ StoreResult
    \/ StoreDone
    \/ SelectBest
    \/ Serve005Finish

SpecResubmit == Init /\ [][NextResubmit]_vars

(***************************************************************************)
(* A provider that hands out next_page_tokens without end                  *)
(***************************************************************************)
\* part_005: one report arrives and is searched for
SubmitPaged ==
    /\ pc = "idle"
    /\ \E text \in ResubmittedTexts, ctx \in Contexts005, e \in Envs005 : begin005(text, ctx, e)
    /\ UNCHANGED <<searchVars, stub, resubmitVars, probeVars>>

\* lines 128-152: a page without places, free to carry a token each time
FetchTokenPage ==
    /\ pc = "fetch"
    /\ \E token \in BOOLEAN : pageArrives(<<>>, token)
    /\ UNCHANGED <<fixedVars, radiusIdx, logs, searchResult, response>>

NextPaged ==
    \/ SubmitPaged
    \/ FetchThrows
    \/ FetchErrorStatus
    \/ FetchTokenPage
    \/ StoreDone
    \/ SelectBest
    \/ Serve005Finish

\* every await of the handler returns or throws, so a started request goes on
SpecPaged == Init /\ [][NextPaged]_vars /\ WF_vars(NextPaged)

(***************************************************************************)
(* Functions called on their own                                           *)
(***************************************************************************)
\* the value a call returned
Returned(value) == [returned |-> value]

MaxStringLen == 3
StringChars == {"a", "b", "A"}
Strings == SeqsUpTo(StringChars, MaxStringLen)

\* part_005 lines 77-82: calculateSimilarity(str1, str2) for any two strings
InitSimilarity ==
    /\ Idle
    /\ arg \in [str1 : Strings, str2 : Strings]
    /\ out = None

CallSimilarity ==
    /\ out = None
    /\ out' = Returned(calculateSimilarity(arg.str1, arg.str2))
    /\ UNCHANGED <<handlerVars, arg, now, localStorage>>

SpecSimilarity == InitSimilarity /\ [][CallSimilarity]_vars

\* part_005 lines 297-335: classifyHazard(description) for descriptions of up to
\* MaxWords words, called for one description and then for another
MaxWords == 2
DescriptionWords == {Kw.accident, Kw.ice, Kw.tree, Kw.down, Kw.flood, Kw.debris, Kw.pothole,
                     Kw.sign, <<"r","o","a","d">>}
Descriptions == {joinWords(ws, 1, Len(ws)) : ws \in SeqsUpTo(DescriptionWords, MaxWords)}

InitClassify ==
    /\ Idle
    /\ arg \in [1..2 -> Descriptions]
    /\ out = <<>>

CallClassify ==
    /\ Len(out) < Len(arg)
    /\ out' = Append(out, classifyHazard(arg[Len(out) + 1]))
    /\ UNCHANGED <<handlerVars, arg, now, localStorage>>

SpecClassify == InitClassify /\ [][CallClassify]_vars

\* part_005 lines 297-335: classifyHazard(description) for one text of up to
\* MaxWords words, among them every keyword of the function and two in capitals
ClassifiedWords ==
    {Kw[k] : k \in DOMAIN Kw} \cup {<<"I","C","E">>, <<"T","r","e","e">>, <<"r","o","a","d">>}
ClassifiedTexts ==
    {joinWords(ws, 1, Len(ws)) : ws \in SeqsUpTo(ClassifiedWords, MaxWords)}

InitClassifyOne ==
    /\ Idle
    /\ arg \in ClassifiedTexts
    /\ out = None

CallClassifyOne ==
    /\ out = None
    /\ out' = Returned(classifyHazard(arg))
    /\ UNCHANGED <<handlerVars, arg, now, localStorage>>

SpecClassifyOne == InitClassifyOne /\ [][CallClassifyOne]_vars

(***************************************************************************)
(* The description of a report                                             *)
(***************************************************************************)
Digits == {"0", "1", "2", "3", "4", "5", "6", "7", "8", "9"}
TerminalPunctuation == {".", "!", "?"}

UpperChar(c) ==
    IF \E i \in 1..26 : LowerChars[i] = c
    THEN UpperChars[CHOOSE i \in 1..26 : LowerChars[i] = c]
    ELSE c

\* \w
isWordChar(c) ==
    \/ \E i \in 1..26 : LowerChars[i] = c \/ UpperChars[i] = c
    \/ c \in Digits
    \/ c = "_"

RECURSIVE trimStart(_)
trimStart(s) == IF s # <<>> /\ s[1] = " " THEN trimStart(Tail(s)) ELSE s

RECURSIVE trimEnd(_)
trimEnd(s) == IF s # <<>> /\ s[Len(s)] = " " THEN trimEnd(SubSeq(s, 1, Len(s) - 1)) ELSE s

\* String.prototype.trim
trim(s) == trimEnd(trimStart(s))

\* /\bword\b/ matches at position i of s (with the i flag: whatever the case)
wordMatchesAt(s, i, word, ignoreCase) ==
    /\ i + Len(word) - 1 <= Len(s)
    /\ \A k \in 1..Len(word) :
          (IF ignoreCase THEN LowerChar(s[i + k - 1]) ELSE s[i + k - 1]) = word[k]
    /\ (i = 1 \/ ~isWordChar(s[i - 1]))
    /\ (i + Len(word) > Len(s) \/ ~isWordChar(s[i + Len(word)]))

RECURSIVE replaceWordFrom(_, _, _, _, _)
\* s.replace(/\bword\b/g, to), from position i on
replaceWordFrom(s, i, word, to, ignoreCase) ==
    IF i > Len(s) THEN <<>>
    ELSE IF wordMatchesAt(s, i, word, ignoreCase)
         THEN to \o replaceWordFrom(s, i + Len(word), word, to, ignoreCase)
         ELSE <<s[i]>> \o replaceWordFrom(s, i + 1, word, to, ignoreCase)

RECURSIVE replaceWords(_, _, _)
\* the chained .replace calls of a table of [word, to, ignoreCase], in order
replaceWords(s, table, n) ==
    IF n > Len(table) THEN s
    ELSE replaceWords(replaceWordFrom(s, 1, table[n].word, table[n].to,
                                      table[n].ignoreCase), table, n + 1)

RECURSIVE collapseBlanks(_)
\* s.replace(/\s+/g, ' ')
collapseBlanks(s) ==
    IF Len(s) < 2 THEN s
    ELSE IF s[1] = " " /\ s[2] = " " THEN collapseBlanks(Tail(s))
    ELSE <<s[1]>> \o collapseBlanks(Tail(s))

\* cleanedText.charAt(0).toUpperCase() + cleanedText.slice(1)
capitalizeFirst(s) == IF s = <<>> THEN s ELSE <<UpperChar(s[1])>> \o Tail(s)

\* if the text does not end with '.', '!' or '?', a '.' is added
withPeriod(s) ==
    IF s # <<>> /\ s[Len(s)] \in TerminalPunctuation THEN s ELSE Append(s, ".")

\* part_005 lines 340-346
misspellings ==
    << [word |-> <<"t","e","h">>, to |-> <<"t","h","e">>, ignoreCase |-> TRUE],
       [word |-> <<"t","h","i","e","r">>, to |-> <<"t","h","e","i","r">>, ignoreCase |-> TRUE],
       [word |-> <<"y","o","u","'","r","e">>, to |-> <<"y","o","u"," ","a","r","e">>, ignoreCase |-> TRUE],
       [word |-> <<"t","h","e","r","e","s">>, to |-> <<"t","h","e","r","e"," ","i","s">>, ignoreCase |-> TRUE],
       [word |-> <<"d","o","n","t">>, to |-> <<"d","o"," ","n","o","t">>, ignoreCase |-> TRUE],
       [word |-> <<"c","a","n","t">>, to |-> <<"c","a","n","n","o","t">>, ignoreCase |-> TRUE],
       [word |-> <<"w","o","n","t">>, to |-> <<"w","i","l","l"," ","n","o","t">>, ignoreCase |-> TRUE] >>

\* part_005 line 348: .replace(/^\w/, c => c.toUpperCase())
capitalizeFirstWordChar(s) ==
    IF s # <<>> /\ isWordChar(s[1]) THEN <<UpperChar(s[1])>> \o Tail(s) ELSE s

\* part_005 line 349: .replace(/([.!?])\s*$/, '$1'): the blanks after a final
\* punctuation mark are dropped; a text without one is left as it is
dropBlanksAfterPunctuation(s) ==
    LET t == trimEnd(s)
    IN  IF t # <<>> /\ t[Len(t)] \in TerminalPunctuation THEN t ELSE s

\* part_005 lines 338-350
cleanDescription(input) ==
    dropBlanksAfterPunctuation(
        capitalizeFirstWordChar(trim(replaceWords(input, misspellings, 1))))

\* part_004 lines 429-434: cleanedText of createSimpleFallback
createSimpleFallbackDescription(input) == withPeriod(capitalizeFirst(trim(input)))

\* aiService.ts lines 252-264, without /\band\s+and\b/: no text drawn holds 'and'
clientCorrections ==
    << [word |-> <<"i">>, to |-> <<"I">>, ignoreCase |-> FALSE],
       [word |-> <<"t","h","e","r","e","s">>, to |-> <<"t","h","e","r","e"," ","i","s">>, ignoreCase |-> TRUE],
       [word |-> <<"t","h","i","e","r">>, to |-> <<"t","h","e","i","r">>, ignoreCase |-> TRUE],
       [word |-> <<"t","e","h">>, to |-> <<"t","h","e">>, ignoreCase |-> TRUE],
       [word |-> <<"b","o","l","l","i","n","g","r">>, to |-> <<"B","o","l","l","i","n","g","e","r">>, ignoreCase |-> TRUE],
       [word |-> <<"s","a","f","w","a","y">>, to |-> <<"S","a","f","e","w","a","y">>, ignoreCase |-> TRUE],
       [word |-> <<"d","a","n","g","r","o","u","s">>, to |-> <<"d","a","n","g","e","r","o","u","s">>, ignoreCase |-> TRUE],
       [word |-> <<"h","a","z","r","d">>, to |-> <<"h","a","z","a","r","d">>, ignoreCase |-> TRUE],
       [word |-> <<"p","o","t","h","o","l">>, to |-> <<"p","o","t","h","o","l","e">>, ignoreCase |-> TRUE],
       [word |-> <<"a","c","c","i","d","n","t">>, to |-> <<"a","c","c","i","d","e","n","t">>, ignoreCase |-> TRUE],
       [word |-> <<"c","o","n","s","t","r","u","c","t","i","n">>, to |-> <<"c","o","n","s","t","r","u","c","t","i","o","n">>, ignoreCase |-> TRUE],
       [word |-> <<"d","o","w","n","t","w","n">>, to |-> <<"d","o","w","n","t","o","w","n">>, ignoreCase |-> TRUE] >>

\* aiService.ts lines 246-273 and 302: the description of processHazardTextLocal
processHazardTextLocalDescription(input) ==
    withPeriod(capitalizeFirst(
        collapseBlanks(replaceWords(trim(input), clientCorrections, 1))))

\* the description of a report, by the code that builds it
DescriptionPaths == {"part_005:classified", "part_005:match", "part_005:error",
                     "index.ts:fallback", "part_004:fallback",
                     "aiService.ts:fallback", "part_017:fallback"}

descriptionOf(path, input, placeName) ==
    CASE path = "part_005:classified" ->        \* lines 421 and 500
            cleanDescription(input)
      [] path = "part_005:match" ->             \* line 463
            cleanDescription(input) \o <<" ","n","e","a","r"," ">> \o placeName \o <<".">>
      [] path = "part_005:error" ->             \* line 527
            <<"U","n","a","b","l","e"," ","t","o"," ","p","r","o","c","e","s","s"," ","h","a","z","a","r","d"," ","r","e","p","o","r","t"," ","d","u","e"," ","t","o"," ","s","y","s","t","e","m"," ","e","r","r","o","r",".">>
      [] path = "index.ts:fallback" ->          \* index.ts line 295
            trim(input)
      [] path = "part_004:fallback" ->          \* part_004 line 483
            createSimpleFallbackDescription(input)
      [] path = "aiService.ts:fallback" ->      \* aiService.ts line 238
            processHazardTextLocalDescription(input)
      [] path = "part_017:fallback" ->          \* part_017 line 105
            input

\* the texts described: up to MaxWords words, written with or without a
\* misspelling, a leading blank, a final mark and blanks after it
TextWords == {<<"t","e","h">>, <<"p","o","t","h","o","l","e">>, <<"i">>, <<"C","a","n","t">>}
TextEndings == {<<>>, <<".">>, <<"!">>, <<"?">>, <<" ">>, <<".", " ">>}
DescribedTexts ==
    {lead \o joinWords(ws, 1, Len(ws)) \o ending :
        lead \in {<<>>, <<" ">>}, ws \in SeqsUpTo(TextWords, MaxWords) \ {<<>>},
        ending \in TextEndings}

InitDescribe ==
    /\ Idle
    /\ arg \in [path : DescriptionPaths, userInput : DescribedTexts]
    /\ out = None

CallDescribe ==
    /\ out = None
    /\ out' = Returned(descriptionOf(arg.path, arg.userInput, NameSafeway))
    /\ UNCHANGED <<handlerVars, arg, now, localStorage>>

SpecDescribe == InitDescribe /\ [][CallDescribe]_vars

(***************************************************************************)
(* LocationService (part_018)                                              *)
(***************************************************************************)
\* 24 * 60 * 60 * 1000 ms, the clock counting in steps of 8 hours
Day == 3
\* the last reading of the clock
MaxClock == 6

\* lines 28-32: the fix of the browser, stamped with Date.now()
Fix(t) == [lat |-> UserLat, lng |-> UserLng, timestamp |-> t]

\* a fix kept whatever its age
getLastKnownLocationAnyAge(storage, t) ==
    [location |-> storage.user_last_location, storage |-> storage]

\* lines 74-92: the stored fix, or null when nothing is stored or the fix is
\* more than a day old; an old fix is removed from the storage
getLastKnownLocation(storage, t) ==
    LET location == storage.user_last_location
    IN  IF location = None
        THEN [location |-> None, storage |-> storage]
        ELSE IF location.timestamp # 0 /\ t - location.timestamp > Day
        THEN [location |-> None,
              storage |-> [storage EXCEPT !.user_last_location = None]]
        ELSE [location |-> location, storage |-> storage]

\* lines 130-136
getLocationContext(storage, t) ==
    LET last == getLastKnownLocation(storage, t)
    IN  [context |-> [lastKnownLocation |-> last.location,
                      routeStartLocation |-> storage.route_start_location,
                      routeDestinationLocation |-> storage.route_destination_location],
         storage |-> last.storage]

\* lines 138-145
hasAnyLocationData(storage, t) ==
    LET got == getLocationContext(storage, t)
    IN  [any |-> \/ got.context.lastKnownLocation # None
                 \/ got.context.routeStartLocation # None
                 \/ got.context.routeDestinationLocation # None,
         storage |-> got.storage]

\* what a call read: the clock and the storage as they were
Read(call) == [call |-> call, now |-> now, storage |-> localStorage]

\* time passes
Tick ==
    /\ now < MaxClock
    /\ now' = now + 1
    /\ UNCHANGED <<handlerVars, arg, out, localStorage>>

\* lines 19-58 and 60-72: the browser gives a fix, which is stored, or an
\* error; setItem may throw, and the storage then keeps what it held
RequestUserLocation ==
    /\ \E position \in BOOLEAN, stored \in BOOLEAN :
          localStorage' = IF position /\ stored
                          THEN [localStorage EXCEPT !.user_last_location = Fix(now)]
                          ELSE localStorage
    /\ UNCHANGED <<handlerVars, arg, out, now>>

\* lines 94-100
StoreRouteStartLocation ==
    /\ localStorage' = [localStorage EXCEPT !.route_start_location = RouteLocation]
    /\ UNCHANGED <<handlerVars, arg, out, now>>

\* lines 112-118
StoreRouteDestinationLocation ==
    /\ localStorage' = [localStorage EXCEPT !.route_destination_location = RouteLocation]
    /\ UNCHANGED <<handlerVars, arg, out, now>>

\* lines 130-136
GetLocationContext ==
    /\ arg' = Read("getLocationContext")
    /\ out' = Returned(getLocationContext(localStorage, now).context)
    /\ localStorage' = getLocationContext(localStorage, now).storage
    /\ UNCHANGED <<handlerVars, now>>

\* lines 138-145
HasAnyLocationData ==
    /\ arg' = Read("hasAnyLocationData")
    /\ out' = Returned(hasAnyLocationData(localStorage, now).any)
    /\ localStorage' = hasAnyLocationData(localStorage, now).storage
    /\ UNCHANGED <<handlerVars, now>>

\* AIHazardInput.tsx lines 25-44: a report is submitted; the context read here
\* is the one handed to analyzeHazardReport
HandleSubmit ==
    /\ arg' = Read("handleSubmit")
    /\ out' = Returned(getLocationContext(localStorage, now).context)
    /\ locationContext' = getLocationContext(localStorage, now).context
    /\ localStorage' = getLocationContext(localStorage, now).storage
    /\ UNCHANGED <<userInput, env, handler, llm, lookups, clientAnalysis, resubmitVars,
                   searchVars, pc, response, stub, now, componentVars, cleanupVars>>

NextLocation ==
    \/ Tick
    \/ RequestUserLocation
    \/ StoreRouteStartLocation
    \/ StoreRouteDestinationLocation
    \/ GetLocationContext
    \/ HasAnyLocationData
    \/ HandleSubmit

SpecLocation == Init /\ [][NextLocation]_vars

(***************************************************************************)
(* AIHazardInput.tsx: the report form and its location prompt              *)
(***************************************************************************)
\* how many reports the user submits
MaxReports == 3
\* what the user may have typed into the textarea
TypedTexts == {<<>>, <<" ">>, <<"i","c","e">>}

\* what analyzeHazardReport may resolve to for the n-th report
Analyses(n) ==
    [id : {n}, needsLocationConfirmation : BOOLEAN,
     location : {None, [address |-> "Main Street", coordinates |-> None]}]

callsOf(event) == Cardinality({i \in 1..Len(journal) : journal[i].event = event})

\* a reset that leaves the prompt on the screen
resetLocationPromptKeepingPrompt(c) ==
    [c EXCEPT !.needsLocation = FALSE, !.pendingHazard = None]

\* lines 109-113
resetLocationPrompt(c) ==
    [c EXCEPT !.showLocationPrompt = FALSE, !.needsLocation = FALSE, !.pendingHazard = None]

\* lines 28 and 128: the submit button is disabled, and handleSubmit returns at once
submitDisabled(c) == trim(c.input) = <<>> \/ c.isProcessing

\* line 135 and lines 148, 157: the prompt is rendered and its buttons are enabled
promptEnabled(c) == c.showLocationPrompt /\ ~c.isProcessing

\* line 120: the user types
setInput ==
    /\ \E text \in TypedTexts :
          /\ text # component.input
          /\ component' = [component EXCEPT !.input = text]
    /\ UNCHANGED <<serverVars, cleanupVars, arg, out, now, localStorage, awaiting, journal>>

\* lines 26-44: handleSubmit up to its await of analyzeHazardReport
handleSubmitCalled ==
    /\ ~submitDisabled(component)
    /\ callsOf("analyzeHazardReport") < MaxReports
    /\ component' = [component EXCEPT !.isProcessing = TRUE]
    /\ localStorage' = getLocationContext(localStorage, now).storage
    /\ journal' = Append(journal, [event |-> "analyzeHazardReport",
                                   input |-> trim(component.input),
                                   locationContext |-> getLocationContext(localStorage, now).context])
    /\ awaiting' = awaiting \cup {[handler |-> "handleSubmit",
                                   id |-> callsOf("analyzeHazardReport") + 1]}
    /\ UNCHANGED <<serverVars, cleanupVars, arg, out, now>>

\* lines 44-70: analyzeHazardReport resolves, or throws
handleSubmitResumed ==
    /\ \E task \in awaiting :
          /\ task.handler = "handleSubmit"
          /\ awaiting' = awaiting \ {task}
          /\ \E analysis \in Analyses(task.id) \cup {None} :
                IF analysis = None
                THEN /\ component' = [component EXCEPT !.isProcessing = FALSE]
                     /\ UNCHANGED journal
                ELSE IF analysis.needsLocationConfirmation
                THEN /\ component' = [component EXCEPT !.pendingHazard = analysis,
                                                       !.showLocationPrompt = TRUE,
                                                       !.needsLocation = TRUE,
                                                       !.isProcessing = FALSE]
                     /\ UNCHANGED journal
                ELSE /\ journal' = Append(journal, [event |-> "onHazardSubmit",
                                                    hazard |-> analysis,
                                                    location |-> analysis.location])
                     /\ component' = [component EXCEPT !.input = <<>>,
                                                       !.isProcessing = FALSE]
    /\ UNCHANGED <<serverVars, cleanupVars, arg, out, now, localStorage>>

\* lines 73-76: Share Location is clicked; handleLocationShare up to its await
handleLocationShareCalled ==
    /\ promptEnabled(component)
    /\ component' = [component EXCEPT !.isProcessing = TRUE]
    /\ awaiting' = awaiting \cup {[handler |-> "handleLocationShare",
                                   pendingHazard |-> component.pendingHazard]}
    /\ UNCHANGED <<serverVars, cleanupVars, arg, out, now, localStorage, journal>>

\* lines 76-101: requestUserLocation resolves with a fix, which it has tried
\* to store, or with null
handleLocationShareResumed ==
    /\ \E task \in awaiting :
          /\ task.handler = "handleLocationShare"
          /\ awaiting' = awaiting \ {task}
          /\ \E position \in {None, Fix(now)}, stored \in BOOLEAN :
                /\ localStorage' = IF position # None /\ stored
                                   THEN [localStorage EXCEPT !.user_last_location = position]
                                   ELSE localStorage
                /\ IF position # None /\ task.pendingHazard # None
                   THEN /\ journal' = Append(journal,
                                [event |-> "onHazardSubmit",
                                 hazard |-> task.pendingHazard,
                                 location |-> [address |-> "User location",
                                               coordinates |-> [lat |-> position.lat,
                                                                lng |-> position.lng]]])
                        /\ component' = [resetLocationPrompt(component)
                                            EXCEPT !.input = <<>>, !.isProcessing = FALSE]
                   ELSE /\ component' = [component EXCEPT !.isProcessing = FALSE]
                        /\ UNCHANGED journal
    /\ UNCHANGED <<serverVars, cleanupVars, arg, out, now>>

\* lines 104-107: Don't Share is clicked
handleLocationDeny ==
    /\ promptEnabled(component)
    /\ journal' = Append(journal, [event |-> "handleLocationDeny",
                                   hazard |-> component.pendingHazard])
    /\ component' = resetLocationPrompt(component)
    /\ UNCHANGED <<serverVars, cleanupVars, arg, out, now, localStorage, awaiting>>

NextComponent ==
    \/ setInput
    \/ handleSubmitCalled
    \/ handleSubmitResumed
    \/ handleLocationShareCalled
    \/ handleLocationShareResumed
    \/ handleLocationDeny

SpecComponent == Init /\ [][NextComponent]_vars

(***************************************************************************)
(* cleanup-old-hazards and the hazard_reports table                        *)
(***************************************************************************)
\* how many rows hazard_reports holds at most
MaxRows == 3

\* a filter that also takes the rows created at the cutoff
notAfter(created_at, cutoff) == created_at <= cutoff

\* index.ts line 31: .lt('created_at', twentyFourHoursAgo)
olderThan(created_at, cutoff) == created_at < cutoff

\* HazardReporterCard.tsx lines 199-213: a report is inserted; created_at and
\* updated_at default to now()
InsertReport ==
    /\ Cardinality(hazard_reports) < MaxRows
    /\ \E id \in 1..MaxRows :
          /\ \A r \in hazard_reports : r.id # id
          /\ hazard_reports' = hazard_reports \cup
                {[id |-> id, severity |-> "medium", created_at |-> now, updated_at |-> now]}
    /\ UNCHANGED <<serverVars, componentVars, arg, out, now, localStorage, cleanup>>

\* index.ts lines 14-24: a run starts and computes twentyFourHoursAgo
CleanupBegins ==
    /\ cleanup.phase # "deleting"
    /\ cleanup' = [phase |-> "deleting", startedAt |-> now, cutoff |-> now - Day,
                   deleted |-> {}, status |-> 200]
    /\ UNCHANGED <<serverVars, componentVars, arg, out, now, localStorage, hazard_reports>>

\* index.ts lines 28-79: the delete is executed, or fails, and the run answers
CleanupDeletes ==
    /\ cleanup.phase = "deleting"
    /\ \E db \in {"ok", "error", "throws"} :
          LET old == {r \in hazard_reports : olderThan(r.created_at, cleanup.cutoff)}
          IN  IF db = "ok"
              THEN /\ hazard_reports' = hazard_reports \ old
                   /\ cleanup' = [cleanup EXCEPT !.phase = "done", !.deleted = old]
              ELSE /\ UNCHANGED hazard_reports
                   /\ cleanup' = [cleanup EXCEPT !.phase = "done", !.status = 500]
    /\ UNCHANGED <<serverVars, componentVars, arg, out, now, localStorage>>

NextCleanup ==
    \/ Tick
    \/ InsertReport
    \/ CleanupBegins
    \/ CleanupDeletes

SpecCleanup == Init /\ [][NextCleanup]_vars

(***************************************************************************)
(* Properties                                                              *)
(***************************************************************************)
\* the loops over allResults have a place of the current ring that scores at
\* least 0.85, or the search has returned one
ConfidentFound ==
    \/ /\ pc \in {"store", "select"}
       /\ \E i \in 1..Len(allResults) :
             /\ ~(placeDistance(userLat, userLng, allResults[i]) > radiusMiles(radius))
             /\ maxSimilarity(userInput, allResults[i]) >= confidentSimilarity
    \/ /\ pc \in {"searched", "done"}
       /\ searchResult # None

\* C1: once the search holds an in-ring candidate of similarity >= 0.85 at
\* radius R it issues no further provider request and stays at R until it
\* returns that ring's match: no radius larger than R is ever queried.
C1_NoExpansionAfterConfidentMatch ==
    [][ConfidentFound =>
          /\ ConfidentFound'
          /\ requests' = requests
          /\ radiusIdx' = radiusIdx]_vars

\* a confident match was adopted in the first ring with larger rings left
C1_Witness ==
    /\ pc = "done"
    /\ searchResult # None
    /\ radiusIdx = 1
    /\ \A i \in 1..Len(requests) : requests[i] = radiusLayers[1]

\* C2: whatever places the provider returns, the candidate the search returns
\* lies within the radius of the ring it is reported for: its distance is the
\* great-circle distance from the user and does not exceed the ring's radius,
\* and its confidence is that ring's.
C2_ReturnedWithinRing ==
    searchResult # None =>
        /\ searchResult.distance = placeDistance(userLat, userLng, searchResult.place)
        /\ searchResult.distance <= radiusMiles(radius)
        /\ searchResult.confidence = confidenceThresholds(radius)

\* the place 4 miles away, offered to every ring, is returned by the third
C2_Witness ==
    /\ searchResult # None
    /\ searchResult.place = 3
    /\ radiusIdx = 3
    /\ Len(requests) >= 3

\* C3: every returned analysis whose location has confidence high has
\* needsLocationConfirmation = false (as the claim states it, for every
\* handler and every LLM response).
C3_HighNeedsNoConfirmation ==
    /\ (pc = "done" /\ response.kind = "analysis" /\ response.location # None
          /\ response.location.confidence = "high")
       => ~response.needsLocationConfirmation
    /\ (pc = "returned" /\ clientAnalysis.location # None
          /\ clientAnalysis.location.confidence = "high")
       => ~clientAnalysis.needsLocationConfirmation

\* C4: every returned analysis with location = null has
\* needsLocationConfirmation = true, on the LLM-success path and on every
\* fallback path (as the claim states it).
C4_NullLocationNeedsConfirmation ==
    /\ (pc = "done" /\ response.kind = "analysis" /\ response.location = None)
       => response.needsLocationConfirmation
    /\ (pc = "returned" /\ clientAnalysis.location = None)
       => clientAnalysis.needsLocationConfirmation

\* C5: no returned analysis has a location of confidence low together with
\* needsLocationConfirmation = false (as the claim states it).
C5_LowNeedsConfirmation ==
    /\ (pc = "done" /\ response.kind = "analysis" /\ response.location # None
          /\ response.location.confidence = "low")
       => response.needsLocationConfirmation
    /\ (pc = "returned" /\ clientAnalysis.location # None
          /\ clientAnalysis.location.confidence = "low")
       => clientAnalysis.needsLocationConfirmation

\* C6: a returned location has confidence high only if it is a place whose name
\* scored at least 0.85 against the query (as the claim states it).
C6_HighOnlyByNameMatch ==
    /\ (pc = "done" /\ response.kind = "analysis" /\ response.location # None
          /\ response.location.confidence = "high")
       => /\ response.location.place # 0
          /\ maxSimilarity(userInput, response.location.place) >= confidentSimilarity
    /\ (pc = "returned" /\ clientAnalysis.location # None
          /\ clientAnalysis.location.confidence = "high")
       => /\ clientAnalysis.location.place # 0
          /\ maxSimilarity(userInput, clientAnalysis.location.place) >= confidentSimilarity

\* C7: the entry point answers every request with a HazardReport-shaped
\* result, and a request that met an internal exception with title 'Road
\* Hazard', severity medium and needsLocationConfirmation = true (as the claim
\* states it).
C7_ErrorsBecomeReports ==
    pc = "done" =>
        /\ response.kind = "analysis"
        /\ response.status = 500 =>
              /\ response.title = "Road Hazard"
              /\ response.severity = "medium"
              /\ response.needsLocationConfirmation

\* the LLM stage of this request failed: no credential, or a failed call
LLMStageFailed ==
    /\ pc = "done"
    /\ handler \in {"index", "part_004"}
    /\ (~env.openAIApiKey \/ llm.kind \in LLMFailures)

\* what the handler answers to this request when the LLM call ends with status 429
answerAfterRateLimit ==
    LET e == [env EXCEPT !.openAIApiKey = TRUE]
        l == [kind |-> "429", analysis |-> None]
    IN  IF handler = "index"
        THEN serveIndex(locationContext, e, l,
                        IF lookups.places = <<>> THEN 0 ELSE Head(lookups.places),
                        lookups.geocoded)
        ELSE serve004(userInput, locationContext, e, l, lookups.places, lookups.again)

\* C8: each failure of the LLM stage (missing credential, 429, 401, another
\* non-2xx status, an unparseable body) ends in a returned analysis, the same
\* one whichever failure it was (as the claim states it).
C8_EveryLLMFailureFallsBack ==
    LLMStageFailed =>
        /\ response.kind = "analysis"
        /\ response = answerAfterRateLimit

\* the request carries no location hint at all
NoHint ==
    /\ locationContext.lastKnownLocation = None
    /\ locationContext.routeStartLocation = None
    /\ locationContext.routeDestinationLocation = None

\* C9: with no hint in the location context and no place resolved, the
\* returned report has location = null and needsLocationConfirmation = true
\* (as the claim states it); the LLM's own answers are left aside.
C9_NoHintNoLocation ==
    /\ (pc = "done" /\ NoHint /\ (handler = "part_005" \/ LLMStageFailed))
       => /\ response.kind = "analysis"
          /\ response.location = None
          /\ response.needsLocationConfirmation
    /\ (pc = "returned" /\ NoHint)
       => /\ clientAnalysis.location = None
          /\ clientAnalysis.needsLocationConfirmation

\* the place search of this request ran and found no confident match: the
\* radius search returned null, or the LLM stage failed on a call and the places
\* lookups of the fallback gave no place
NoConfidentMatch ==
    /\ pc = "done"
    /\ locationContext.lastKnownLocation # None
    /\ \/ handler = "part_005" /\ env.googleMapsApiKey /\ searchResult = None
       \/ /\ handler \in {"index", "part_004"}
          /\ env.openAIApiKey
          /\ llm.kind \in LLMFailures
          /\ lookups.places = <<>>
          /\ lookups.again = <<>>

AllUnreachable ==
    /\ pc \in {"done", "returned"}
    /\ NoHint
    /\ lookups = [places |-> <<>>, again |-> <<>>, geocoded |-> None]
    /\ \/ /\ pc = "done"
          /\ handler \in {"index", "part_004"}
          /\ env.openAIApiKey
          /\ llm.kind = "network"
       \/ pc = "returned"

\* C11: with no location hint and every provider unreachable the result for
\* any text, hazard keyword or not, is location = null,
\* needsLocationConfirmation = true, severity medium, title 'Road Hazard' (as
\* the claim states it).
C11_UnreachableGivesGenericReport ==
    AllUnreachable =>
        LET result == IF pc = "done" THEN response ELSE clientAnalysis
        IN  /\ result.location = None
            /\ result.needsLocationConfirmation
            /\ result.severity = "medium"
            /\ result.title = "Road Hazard"

\* a row of the log as the first submission left it, whatever was selected since
sameRow(a, b) == [a EXCEPT !.was_selected = FALSE] = [b EXCEPT !.was_selected = FALSE]

C13_SelfSimilarityIsOne ==
    (out # None /\ arg.str1 = arg.str2) => out.returned = SimScale

\* a string of mixed case and full length was compared with itself
C13_Witness ==
    /\ out = Returned(SimScale)
    /\ arg.str1 = arg.str2
    /\ Len(arg.str1) = MaxStringLen
    /\ \E i \in 1..Len(arg.str1) : arg.str1[i] = "A"

\* C14: two descriptions that classifyHazard gives the same hazardType get the
\* same severity.
C14_SeverityByHazardType ==
    (Len(out) = 2 /\ out[1].hazardType = out[2].hazardType)
        => out[1].severity = out[2].severity


\* C15: the description of a report ends with '.', '!' or '?', whatever the
\* text and whichever code built it.
C15_DescriptionEndsWithPunctuation ==
    out # None =>
        /\ out.returned # <<>>
        /\ out.returned[Len(out.returned)] \in TerminalPunctuation


\* the fix a call found in the storage was more than 24 hours old
ReadOldFix ==
    /\ arg # None
    /\ arg.storage.user_last_location # None
    /\ arg.now - arg.storage.user_last_location.timestamp > Day

\* C16: when the stored fix is older than 24 hours, the context of
\* getLocationContext has no lastKnownLocation, the context handed to the
\* analysis has none, and hasAnyLocationData counts the route hints only.
C16_OldFixIsAbsent ==
    ReadOldFix =>
        /\ arg.call = "getLocationContext" => out.returned.lastKnownLocation = None
        /\ arg.call = "handleSubmit" =>
              /\ out.returned.lastKnownLocation = None
              /\ locationContext = out.returned
        /\ arg.call = "hasAnyLocationData" =>
              out.returned = (\/ arg.storage.route_start_location # None
                              \/ arg.storage.route_destination_location # None)

\* a report was submitted with a route hint stored and a fix of more than a
\* day ago: the context handed on has the hint and no fix
C16_Witness ==
    /\ ReadOldFix
    /\ arg.call = "handleSubmit"
    /\ locationContext # None
    /\ locationContext.lastKnownLocation = None
    /\ locationContext.routeStartLocation # None


\* the in-ring candidates among the results collected for the current radius
InRing(i) == inRadius(placeDistance(userLat, userLng, allResults[i]), radius)
Candidates == {i \in 1..Len(allResults) : InRing(i)}
similarityOf(i) == maxSimilarity(userInput, allResults[i])
distanceOf(i) == placeDistance(userLat, userLng, allResults[i])
ConfidentCandidate == \E i \in Candidates : similarityOf(i) >= confidentSimilarity

\* C17: at each radius in turn the search returns a match exactly when the
\* results collected for that radius hold an in-ring candidate of similarity
\* 0.85 or more; a match is returned by that step only and has similarity 0.85
\* or more; null is returned only at the last radius, when no such candidate is
\* there.
C17_MatchIffConfidentCandidate ==
    [][/\ pc = "select" =>
             ((searchResult' # None /\ pc' = "searched") <=> ConfidentCandidate)
       /\ (searchResult' # None /\ searchResult' # searchResult) =>
             /\ pc = "select"
             /\ searchResult'.similarity >= confidentSimilarity
       /\ (pc # "searched" /\ pc' = "searched" /\ searchResult' = None) =>
             /\ radiusIdx = Len(radiusLayers)
             /\ pc = "select" => ~ConfidentCandidate]_vars

\* the first two radii gave no confident candidate and a later one gave the match
C17_Witness ==
    /\ pc = "searched"
    /\ searchResult # None
    /\ radiusIdx >= 3
    /\ searchResult.similarity >= confidentSimilarity

\* C18: the match returned for a radius is the best in-ring candidate of the
\* results collected for it: none has a higher similarity, and none has the
\* same similarity at a shorter distance.
C18_ReturnedIsBestOfRing ==
    [][(pc = "select" /\ pc' = "searched" /\ searchResult' # None) =>
          \A i \in Candidates :
             /\ similarityOf(i) <= searchResult'.similarity
             /\ similarityOf(i) = searchResult'.similarity =>
                   distanceOf(i) >= searchResult'.distance]_vars

\* two candidates of the same similarity were stored for one radius, the
\* farther one first, and the nearer one was returned
C18_Witness ==
    /\ pc = "searched"
    /\ searchResult # None
    /\ \E i, j \in 1..Len(logs) :
          /\ i < j
          /\ logs[i].radius_meters = radius
          /\ logs[j].radius_meters = radius
          /\ logs[i].similarity_score = logs[j].similarity_score
          /\ logs[i].distance_miles > logs[j].distance_miles
          /\ logs[j].place = searchResult.place

\* the radii of the requests made so far, one after the other without repeats
RECURSIVE radiiOf(_, _)
radiiOf(reqs, n) ==
    IF n = 0 THEN <<>>
    ELSE LET before == radiiOf(reqs, n - 1)
         IN  IF before # <<>> /\ before[Len(before)] = reqs[n]
             THEN before
             ELSE Append(before, reqs[n])

\* C19: the provider is asked at 1600, 4800, 8000 and 16000 metres in this
\* order, and a returned match carries the confidence of the radius it was
\* found at: high at 1600, medium at 4800 and 8000, low at 16000.
C19_RadiiInOrderWithFixedConfidence ==
    /\ LET asked == radiiOf(requests, Len(requests))
       IN  /\ Len(asked) <= 4
           /\ asked = SubSeq(<<1600, 4800, 8000, 16000>>, 1, Len(asked))
    /\ (pc = "searched" /\ searchResult # None) =>
          /\ requests # <<>>
          /\ searchResult.distance <= radiusMiles(requests[Len(requests)])
          /\ searchResult.confidence =
                CASE requests[Len(requests)] = 1600 -> "high"
                  [] requests[Len(requests)] = 4800 -> "medium"
                  [] requests[Len(requests)] = 8000 -> "medium"
                  [] requests[Len(requests)] = 16000 -> "low"

\* all four radii were asked and the match of the last one is of low confidence
C19_Witness ==
    /\ pc = "searched"
    /\ searchResult # None
    /\ radiiOf(requests, Len(requests)) = <<1600, 4800, 8000, 16000>>
    /\ searchResult.confidence = "low"

\* the do-while of the current radius was left by the break of line 141
RingFailed ==
    /\ pc \in {"store", "select"}
    /\ (pageCount = 0 \/ (pageToken /\ pageCount < maxPages))

\* the search goes on to the next radius, or, after the last one, returns null
MovesOn ==
    /\ searchResult' = None
    /\ IF radiusIdx < Len(radiusLayers)
       THEN radiusIdx' = radiusIdx + 1 /\ pc' = "fetch"
       ELSE pc' = "searched"

\* C20: a radius whose request threw, was answered with an error status or
\* gave no results counts as a radius without candidates: the search goes on
\* with the next radius, and null is returned only after the last radius.
C20_FailedRingHasNoCandidates ==
    [][/\ FetchThrows => MovesOn
       /\ (pc = "select" /\ (RingFailed \/ allResults = <<>>)) => MovesOn
       /\ (pc # "searched" /\ pc' = "searched" /\ searchResult' = None) =>
             radiusIdx = Len(radiusLayers)]_vars


\* the requests of the current radius made so far
RECURSIVE requestsAt(_, _, _)
requestsAt(reqs, n, r) ==
    IF n = 0 THEN 0
    ELSE requestsAt(reqs, n - 1, r) + (IF reqs[n] = r THEN 1 ELSE 0)

\* C21: at most 3 pages are fetched per radius, a further page is requested
\* only after a response with a next_page_token, a search makes at most 12
\* requests, and every search ends, whatever the provider answers.
C21_PagesBoundedAndSearchEnds ==
    /\ [](/\ pageCount <= 3
          /\ \A r \in {1600, 4800, 8000, 16000} :
                requestsAt(requests, Len(requests), r) <= 3
          /\ Len(requests) <= 12
          /\ (pc = "fetch" /\ pageCount > 0) => pageToken)
    /\ (pc = "fetch" ~> pc = "done")

\* twelve requests were made: three pages at each of the four radii
C21_Witness ==
    /\ Len(requests) = 12
    /\ pc = "done"

\* C22: in each radius every in-ring result is scored and handed to the insert
\* into places_search_logs, with the radius, its distance, its similarity and
\* was_selected false, before the best match of the radius is selected; a
\* match is returned only by the selection that follows.
C22_LoggedBeforeSelection ==
    [][/\ (pc = "store" /\ storeIdx <= Len(allResults)) =>
             /\ storeIdx' = storeIdx + 1
             /\ pc' = "store"
             /\ IF InRing(storeIdx)
                THEN \/ logs' = logs
                     \/ logs' = Append(logs,
                           [search_query |-> userInput, radius_meters |-> radius,
                            place |-> allResults[storeIdx],
                            distance_miles |-> distanceOf(storeIdx),
                            similarity_score |-> similarityOf(storeIdx),
                            confidence_level |-> confidenceThresholds(radius),
                            was_selected |-> FALSE])
                ELSE logs' = logs
       /\ (pc # "select" /\ pc' = "select") =>
             /\ pc = "store"
             /\ storeIdx > Len(allResults)
       /\ (searchResult' # None /\ searchResult' # searchResult) => pc = "select"]_vars

\* a match was returned and the row of its candidate had been inserted before
C22_Witness ==
    /\ pc = "searched"
    /\ searchResult # None
    /\ \E i \in 1..Len(logs) :
          /\ logs[i].place = searchResult.place
          /\ logs[i].radius_meters = radius
          /\ logs[i].similarity_score = searchResult.similarity

\* the two submissions of one request did not write the same number of rows:
\* a write of one of them failed
WritesDiffer == Len(logs) # 2 * Len(firstLogs)

\* C23: a failed insert or update of places_search_logs does not change what
\* the search returns: of two submissions of one request, answered alike by the
\* provider, the one whose writes failed gets the same response as the other;
\* and after an insert, failed or not, the storing loop goes on with the next
\* result of the radius.
C23_FailedWritesKeepOutcome ==
    /\ []((submission = 2 /\ pc = "done" /\ WritesDiffer) => response = firstResponse)
    /\ [][(pc = "store" /\ storeIdx <= Len(allResults)) =>
             /\ pc' = "store"
             /\ storeIdx' = storeIdx + 1
             /\ UNCHANGED <<allResults, radiusIdx, searchResult>>]_vars
    /\ [][pc = "select" =>
             /\ (searchResult' # None <=> ConfidentCandidate)
             /\ pc' \in {"searched", "fetch"}]_vars

\* the first submission wrote its rows and marked one; every write of the
\* second failed, and it returned the same match
C23_Witness ==
    /\ submission = 2
    /\ pc = "done"
    /\ searchResult # None
    /\ firstLogs # <<>>
    /\ logs = firstLogs
    /\ \E i \in 1..Len(logs) : logs[i].was_selected
    /\ response = firstResponse

\* C24: in index.ts the step after the LLM stage replaces the location and
\* clears needsLocationConfirmation exactly when the location was below high
\* and the places lookup found a place; otherwise it leaves both as they were.
C24_EnhanceChangesOnlyOnPlacesHit ==
    (pc = "done" /\ handler = "index" /\ response.kind = "analysis") =>
        LET before == IF llm.kind = "ok" THEN llm.analysis
                      ELSE indexFallback(locationContext)
            first == IF lookups.places = <<>> THEN 0 ELSE lookups.places[1]
            found == IF before.location # None /\ before.location.confidence # "high"
                     THEN enhanceLocationWithPlaces(before.location.address,
                                                    locationContext, env, first)
                     ELSE None
        IN  IF found # None
            THEN /\ response.location = found
                 /\ ~response.needsLocationConfirmation
            ELSE /\ response.location = before.location
                 /\ response.needsLocationConfirmation = before.needsLocationConfirmation

\* C25: on the keyword-fallback path, when the text names a place and the
\* context holds a hint (last known location, route start or destination),
\* the places search is made.
C25_HintMeansSearch ==
    /\ (/\ pc = "done"
        /\ handler = "part_004"
        /\ env.openAIApiKey
        /\ env.googleMapsApiKey
        /\ llm.kind # "ok"
        /\ businessMatch(userInput) # <<>>
        /\ hasLocationData(locationContext))
          => asksFirst004(userInput, locationContext, env, llm)
    /\ (/\ pc = "returned"
        /\ handler = "aiService"
        /\ extractedLocation(userInput) # <<>>
        /\ hasLocationData(locationContext))
          => clientAsksPlaces(userInput, locationContext)

\* the rules of the classifier in their order of priority: a rule matches a
\* text that holds every word of 'every' and, when 'some' is not empty, one of
\* 'some'
RuleTable ==
    << [every |-> {}, some |-> {<<"a","c","c","i","d","e","n","t">>, <<"c","r","a","s","h">>, <<"c","o","l","l","i","s","i","o","n">>},
        hazardType |-> "accident", severity |-> "high", title |-> "Accident Alert"],
       [every |-> {}, some |-> {<<"i","c","e">>, <<"f","r","o","s","t">>, <<"f","r","o","z","e","n">>},
        hazardType |-> "ice", severity |-> "high", title |-> "Ice Hazard"],
       [every |-> {<<"t","r","e","e">>}, some |-> {<<"d","o","w","n">>, <<"f","e","l","l">>, <<"f","a","l","l","e","n">>, <<"b","l","o","c","k","i","n","g">>},
        hazardType |-> "obstruction", severity |-> "high", title |-> "Fallen Tree"],
       [every |-> {}, some |-> {<<"b","l","o","c","k","e","d">>, <<"b","l","o","c","k","i","n","g">>, <<"c","l","o","s","u","r","e">>},
        hazardType |-> "obstruction", severity |-> "high", title |-> "Road Closure"],
       [every |-> {}, some |-> {<<"f","l","o","o","d">>, <<"w","a","t","e","r">>},
        hazardType |-> "flooding", severity |-> "medium", title |-> "Water Hazard"],
       [every |-> {}, some |-> {<<"c","o","n","s","t","r","u","c","t","i","o","n">>, <<"w","o","r","k">>, <<"c","r","e","w">>},
        hazardType |-> "construction", severity |-> "medium", title |-> "Construction Zone"],
       [every |-> {}, some |-> {<<"d","e","b","r","i","s">>, <<"t","r","a","s","h">>, <<"g","a","r","b","a","g","e">>},
        hazardType |-> "debris", severity |-> "medium", title |-> "Road Debris"],
       [every |-> {}, some |-> {<<"p","o","t","h","o","l","e">>, <<"h","o","l","e">>},
        hazardType |-> "pothole", severity |-> "low", title |-> "Pothole Alert"],
       [every |-> {<<"s","i","g","n">>, <<"d","o","w","n">>}, some |-> {},
        hazardType |-> "debris", severity |-> "low", title |-> "Sign Down"] >>

\* the text in lower case, letter by letter
Lowered(text) == [i \in 1..Len(text) |-> LowerChar(text[i])]

RuleMatches(n, text) ==
    /\ \A w \in RuleTable[n].every : includes(Lowered(text), w)
    /\ RuleTable[n].some # {} => \E w \in RuleTable[n].some : includes(Lowered(text), w)

\* C26: classifyHazard answers with the first rule of the table that matches
\* the text, whatever its case, and with unknown / medium / 'Road Hazard' when
\* none matches.
C26_FirstMatchingRuleWins ==
    out # None =>
        LET matching == {n \in 1..Len(RuleTable) : RuleMatches(n, arg)}
        IN  IF matching = {}
            THEN out.returned = [hazardType |-> "unknown", severity |-> "medium",
                                 title |-> "Road Hazard"]
            ELSE LET n == CHOOSE m \in matching : \A k \in matching : m <= k
                 IN  out.returned = [hazardType |-> RuleTable[n].hazardType,
                                     severity |-> RuleTable[n].severity,
                                     title |-> RuleTable[n].title]

\* a text in capitals that matches the ice rule and the pothole rule was
\* classified as ice
C26_Witness ==
    /\ out # None
    /\ includes(arg, <<"I","C","E">>)
    /\ includes(arg, <<"p","o","t","h","o","l","e">>)
    /\ out.returned.title = "Ice Hazard"

\* the edit distance by its recursive definition: the fewest insertions,
\* deletions and substitutions of one character that turn a into b
RECURSIVE EditDistance(_, _)
EditDistance(a, b) ==
    IF a = <<>> THEN Len(b)
    ELSE IF b = <<>> THEN Len(a)
    ELSE IF Head(a) = Head(b) THEN EditDistance(Tail(a), Tail(b))
    ELSE 1 + Min(EditDistance(Tail(a), b),
                 Min(EditDistance(a, Tail(b)), EditDistance(Tail(a), Tail(b))))

\* C27: calculateSimilarity(a, b) is (max - L) / max, with max the longer of
\* the two lengths and L the edit distance of the strings in lower case, is 1
\* for two empty strings, and lies between 0 and 1 (SimScale stands for 1).
C27_SimilarityIsNormalisedEditDistance ==
    out # None =>
        LET longest == Max(Len(arg.str1), Len(arg.str2))
            L == EditDistance(Lowered(arg.str1), Lowered(arg.str2))
        IN  /\ out.returned >= 0
            /\ out.returned <= SimScale
            /\ longest = 0 => out.returned = SimScale
            /\ longest > 0 => out.returned = ((longest - L) * SimScale) \div longest

\* two strings of different lengths and different case, one edit apart, were
\* compared and found partly similar
C27_Witness ==
    /\ out # None
    /\ Len(arg.str1) = Len(arg.str2) + 1
    /\ Len(arg.str2) > 0
    /\ \E i \in 1..Len(arg.str1) : arg.str1[i] = "A"
    /\ \A i \in 1..Len(arg.str2) : arg.str2[i] # "A"
    /\ out.returned = ((Len(arg.str1) - 1) * SimScale) \div Len(arg.str1)

\* the rows of places_search_logs that are marked selected
SelectedRows == {i \in 1..Len(logs) : logs[i].was_selected}

\* C28: once searchPlacesWithExpansion has finished, was_selected is true for
\* exactly one row, that of the returned candidate in the ring that produced
\* it, and for no row at all when the search returned null.
C28_OnlyReturnedRowSelected ==
    (handler = "part_005" /\ pc \in {"searched", "done"}) =>
        IF searchResult = None
        THEN SelectedRows = {}
        ELSE \E i \in 1..Len(logs) :
                /\ SelectedRows = {i}
                /\ logs[i].place = searchResult.place
                /\ logs[i].radius_meters = radius

\* the calls of onHazardSubmit and the denials, as positions of the journal
Submissions == {i \in 1..Len(journal) : journal[i].event = "onHazardSubmit"}
Denials == {i \in 1..Len(journal) : journal[i].event = "handleLocationDeny"}

\* C29: a hazard reaches onHazardSubmit either straight from an analysis that
\* needs no location confirmation, or from Share Location with a location
\* obtained, and it is then the pending hazard the prompt is showing; Don't
\* Share discards the pending hazard, which is never submitted afterwards; the
\* prompt is shown only while there is a pending hazard.
C29_SubmittedOnlyWhenLocated ==
    /\ [](component.showLocationPrompt => component.pendingHazard # None)
    /\ [](\A i \in Denials, j \in Submissions : journal[j].hazard # journal[i].hazard)
    /\ [][/\ callsOf("handleLocationDeny")' > callsOf("handleLocationDeny")
             => /\ component'.pendingHazard = None
                /\ ~component'.showLocationPrompt
          /\ callsOf("onHazardSubmit")' > callsOf("onHazardSubmit")
             => LET call == journal'[Len(journal')]
                IN  \/ /\ ~call.hazard.needsLocationConfirmation
                       /\ [handler |-> "handleSubmit", id |-> call.hazard.id] \in awaiting
                       /\ call.location = call.hazard.location
                    \/ /\ call.hazard.needsLocationConfirmation
                       /\ component.showLocationPrompt
                       /\ call.hazard = component.pendingHazard
                       /\ call.location.coordinates = [lat |-> UserLat, lng |-> UserLng]
                       /\ \E task \in awaiting : task.handler = "handleLocationShare"]_vars

\* one hazard was denied, one was submitted from Share Location and one straight
\* from its analysis
C29_Witness ==
    /\ Denials # {}
    /\ \E j \in Submissions : journal[j].hazard.needsLocationConfirmation
    /\ \E j \in Submissions : ~journal[j].hazard.needsLocationConfirmation
    /\ ~component.showLocationPrompt

\* C30: a run of cleanup-old-hazards deletes exactly the rows created more than
\* 24 hours before the run and none when its delete fails; nothing else deletes
\* a row, and no step changes a field of a row.
C30_CleanupDeletesExactlyOld ==
    [][LET gone == hazard_reports \ hazard_reports'
           run == cleanup.phase = "deleting" /\ cleanup'.phase = "done"
       IN  /\ gone # {} => run
           /\ \A r \in hazard_reports' :
                 r \in hazard_reports \/ \A q \in hazard_reports : q.id # r.id
           /\ run => /\ hazard_reports' \subseteq hazard_reports
                     /\ cleanup'.status = 200 =>
                           gone = {r \in hazard_reports :
                                      cleanup.startedAt - r.created_at > Day}
                     /\ cleanup'.status # 200 => gone = {}]_vars

\* a run that took some time deleted a row and kept one that was exactly 24
\* hours old when the run started
C30_Witness ==
    /\ cleanup.phase = "done"
    /\ cleanup.status = 200
    /\ cleanup.deleted # {}
    /\ \E r \in hazard_reports : cleanup.startedAt - r.created_at = Day
    /\ now > cleanup.startedAt

=============================================================================
